---------------------------- MODULE Spec2Model ----------------------------
(***************************************************************************)
(* BRIEF curation and learning engine (axeandlord/news).                   *)
(*                                                                         *)
(* The model follows src/src/database.py (preference store, engagement     *)
(* recorder) and src/src/curator.py (scorer, deduplicator, relation        *)
(* records, section allocator).                                            *)
(*                                                                         *)
(* Real numbers (weights, scores, reliabilities) are fixed-point integers  *)
(* in units of 1/Scale; similarities are fixed-point in units of 1/100.    *)
(* SQL NULL is the value NULL for text columns and the empty set for       *)
(* nullable numeric/timestamp columns (a value v is stored as {v}).        *)
(***************************************************************************)
EXTENDS Integers, Sequences, FiniteSets, TLC

VARIABLES
    prefs,          \* table user_preferences, in id order
    engagement,     \* table article_engagement, in id order
    click_history,  \* table click_history, in id order
    feedback_log,   \* table feedback_log, in id order
    now,            \* the wall clock, datetime.now(), in whole days
    steps,          \* number of recorder operations run so far
    budget,         \* number of recorder operations a behaviour may run
    seed,           \* the earlier processes that wrote the store: calls made, calls to make
    last,           \* the last operation and its arguments
    pre,            \* the four tables as they were before the last operation
    pc,             \* position of the curation code under study
    threshold,      \* dedup.similarity_threshold of the curation config, in 1/100
    batch,          \* the articles handed to deduplicate_articles
    similarity,     \* cosine similarity of the titles of each pair i < j, in 1/100
    simFails,       \* whether the TF-IDF vectorizer raises on this batch
    deduped,        \* first result of deduplicate_articles: the surviving articles
    related_pairs,  \* second result of deduplicate_articles
    relations,      \* the record_article_relation calls of the run, in order
    scored,         \* the curated articles, best score first
    section_specs,  \* config["daily_brief"]["sections"]
    sections,       \* the sections of the brief, by name
    used_links,     \* links already placed in a section
    article,        \* the article handed to calculate_base_score
    learned,        \* the learned weights handed to calculate_base_score
    clock,          \* datetime.now(timezone.utc), in hours
    scores,         \* the results of the calls of calculate_base_score so far
    procs,          \* the processes inside a recorder operation: call, statements run, uncommitted tables
    lock,           \* the process holding the write lock of the database file, or NULL
    order,          \* the processes that committed, in commit order
    started,        \* the tables when the first of the concurrent operations began
    seen,           \* what concurrent calls of get_learned_weights returned
    curation_config, \* the curation config file of the run: absent, malformed, or its document
    xsim,           \* title similarity of each pair of batch positions i < j as the
                    \* cross-reference bonus computes it, in 1/100
    xsimFails,      \* whether the vectorizer of the cross-reference bonus raises
    ranked,         \* hash, base score and bonus of each scored article, in the
                    \* order of the first sort
    run_start,      \* the tables as they were when the run read the learned weights
    request,        \* the JSON body of the POST to /api/feedback
    response,       \* the status and the JSON body of the answer
    forwarded,      \* the calls of record_click and record_feedback the endpoint
                    \* made, in order
    state,          \* webhook.py, _state: running, last_error, last_trigger, step
    wall,           \* time.time(), in units of 150 seconds
    tasks,          \* the _run_pipeline tasks created so far, each with its position
    reply,          \* the answer to the last POST to /trigger
    handled         \* number of POSTs to /trigger handled so far

storeVars == <<prefs, engagement, click_history, feedback_log, now, steps, budget, seed, last, pre>>

dedupVars == <<threshold, batch, similarity, simFails, deduped, related_pairs, relations>>

allocVars == <<scored, section_specs, sections, used_links>>

scoreVars == <<article, learned, clock, scores>>

txnVars == <<procs, lock, order, started, seen>>

runVars == <<curation_config, xsim, xsimFails, ranked, run_start>>
apiVars == <<request, response, forwarded>>
hookVars == <<state, wall, tasks, reply, handled>>

vars == <<storeVars, pc, dedupVars, allocVars, scoreVars, txnVars, apiVars, runVars, hookVars>>

-----------------------------------------------------------------------------
(* Bounds of the model *)

\* recorder operations (shown, click, feedback, decay) per behaviour
MaxSteps == 2
\* the clock stops advancing here
MaxTime == 1
\* feedback operations of earlier processes that wrote the store found at start
LowSeed == 3
HighSeed == 8
\* articles in a batch
MaxBatch == 3
\* articles in the scored list
MaxScored == 3
\* configured sections
MaxSections == 2
\* hours the scorer's clock runs
MaxClock == 12
\* calls of the scorer on one article
MaxCalls == 2
MaxRunBatch == 2
MaxPipeBatch == 3
MaxEvents == 3
MaxShown == 1
MaxBoostBatch == 2
MaxAge == 3
MaxTriggers == 3
MaxWall == 4

-----------------------------------------------------------------------------
(* Program constants, fixed-point *)

Scale == 100 * 100

\* database.py:46 and :226, weight of a fresh row before the boost: 1.0
NeutralWeight == 10000
\* database.py:228, MAX(0.1, ...)
MinWeight == 1000
\* database.py:228, MIN(3.0, ...)
MaxWeight == 30000
\* database.py:276, MAX(0.5, ...)
DecayFloor == 5000
\* database.py:185, click boost 0.05
ClickBoost == 500
\* database.py:213, feedback boost 0.1
FeedbackBoost == 1000
\* database.py:218, keywords[:5]
TopKeywords == 5
\* database.py:258, LIMIT 50
KeywordLimit == 50

\* curator.py:154, relation_threshold = 0.5, in 1/100
RelationThreshold == 50
DefaultMinScore == 2500
DefaultThreshold == 70
DefaultDecayDays == 30
DefaultDecayFactor == 95
DefaultCrossRefWeight == 1500
DefaultCount == 5
CrossRefThreshold == 70
\* RATE_LIMIT_SECONDS, in units of 150 seconds
RateLimit == 2

NULL == "NULL"

Categories == {"tech_ai", "politics"}
Keywords == {"election", "poll"}
Hashes == {"h1", "h2"}
\* (title, source, category, url) as passed to record_article_shown
Infos == {[title |-> "t1", source |-> "s1", category |-> "tech_ai", url |-> "u1"],
          [title |-> "t2", source |-> "s2", category |-> "politics", url |-> "u2"]}
\* the four documented feedback types and one that is none of them
FeedbackTypes == {"like", "dislike", "more_like_this", "less_like_this", "meh"}
\* keyword lists passed to record_feedback; None and [] behave alike (if keywords:)
LongList == <<"election", "election", "election", "election", "election", "poll">>
KwLists == {<<>>, <<"election", "poll">>, LongList}
\* decay_after_days and decay_factor (in percent) of the learning config
DecayDays == {0, 1}
DecayFactors == {50, 95, 100}

Min(a, b) == IF a <= b THEN a ELSE b
Max(a, b) == IF a >= b THEN a ELSE b


\* SQL UPDATE t SET ... WHERE Hit: the rows that satisfy Hit replaced by New
UpdateRows(t, Hit(_), New(_)) ==
    IF t = <<>> THEN <<>>
    ELSE [i \in 1..Len(t) |-> IF Hit(t[i]) THEN New(t[i]) ELSE t[i]]

\* the rows of t that satisfy P, in id order
RECURSIVE Select(_, _)
Select(t, keep) ==
    IF t = <<>> THEN <<>>
    ELSE (IF 1 \in keep THEN <<Head(t)>> ELSE <<>>)
         \o Select(Tail(t), {i - 1 : i \in keep \ {1}})

-----------------------------------------------------------------------------
(* Preference store: database.py *)

\* Two values collide in a UNIQUE index only when both are non-NULL and equal
\* (SQLite treats NULLs as distinct in UNIQUE constraints).
UniqueEq(a, b) == a # NULL /\ b # NULL /\ a = b

Clamp(w) == Min(MaxWeight, Max(MinWeight, w))

\* _boost_preference, the UPDATE branch value: MIN(3.0, MAX(0.1, weight + ?))
UnclampedBoost(w, boost) == w + boost
BoostedWeight(w, boost) == Clamp(w + boost)

\* _boost_preference, the ON CONFLICT(category, keyword) target
Conflict(row, category, keyword) ==
    UniqueEq(row.category, category) /\ UniqueEq(row.keyword, keyword)

\* _boost_preference: INSERT ... ON CONFLICT(category, keyword) DO UPDATE
BoostPreference(p, category, keyword, boost, source, t) ==
    LET hit == {i \in 1..Len(p) : Conflict(p[i], category, keyword)}
    IN  IF hit = {}
        THEN Append(p, [category |-> category, keyword |-> keyword,
                        weight |-> NeutralWeight + boost,
                        source |-> source, updated_at |-> t])
        ELSE UpdateRows(p, LAMBDA r : Conflict(r, category, keyword),
                        LAMBDA r : [r EXCEPT !.weight = BoostedWeight(r.weight, boost),
                                             !.source = source, !.updated_at = t])

\* record_feedback, the loop over keywords[:5]
RECURSIVE BoostKeywords(_, _, _, _, _)
BoostKeywords(p, category, kws, boost, t) ==
    IF kws = <<>> THEN p
    ELSE BoostKeywords(BoostPreference(p, category, Head(kws), boost, "feedback", t),
                       category, Tail(kws), boost, t)

FirstFive(kws) == SubSeq(kws, 1, Min(Len(kws), TopKeywords))

\* record_feedback: 1 if feedback_type in ('like', 'more_like_this') else -1
FeedbackValue(type) == IF type \in {"like", "more_like_this"} THEN 1 ELSE 0 - 1

\* record_feedback, the preference part: category boost, then keyword boosts
FeedbackPrefs(p, type, category, kws, t) ==
    LET boost == IF FeedbackValue(type) > 0 THEN FeedbackBoost ELSE 0 - FeedbackBoost
        p1 == BoostPreference(p, category, NULL, boost, "feedback", t)
    IN  BoostKeywords(p1, category, FirstFive(kws), boost \div 2, t)

\* decay_old_preferences, the new weight: MAX(0.5, weight * ?)
DecayedWeight(w, factor) == Max(DecayFloor, (w * factor) \div 100)

\* as decay_old_preferences, but the rows decayed keep their updated_at
DecayPrefsStale(p, days, factor, t) ==
    UpdateRows(p, LAMBDA r : r.updated_at < t - days,
               LAMBDA r : [r EXCEPT !.weight = DecayedWeight(r.weight, factor),
                                    !.source = "decay"])

\* decay_old_preferences: UPDATE ... WHERE updated_at < cutoff
DecayPrefs(p, days, factor, t) ==
    UpdateRows(p, LAMBDA r : r.updated_at < t - days,
               LAMBDA r : [r EXCEPT !.weight = DecayedWeight(r.weight, factor),
                                    !.source = "decay", !.updated_at = t])

\* AVG(weight) of a non-empty group of rows
RECURSIVE WeightSum(_, _, _)
WeightSum(p, group, n) ==
    IF n = 0 THEN 0
    ELSE (IF n \in group THEN p[n].weight ELSE 0) + WeightSum(p, group, n - 1)

Avg(p, group) == WeightSum(p, group, Len(p)) \div Cardinality(group)

CategoryGroup(p, c) == {i \in 1..Len(p) : p[i].keyword = NULL /\ p[i].category = c}
KeywordGroup(p, k) == {i \in 1..Len(p) : p[i].keyword # NULL /\ p[i].keyword = k}

\* get_learned_weights, second query: the keywords kept by ORDER BY avg DESC LIMIT 50
\* (rows of equal average in order of first insertion), minus the empty keyword
TopKeywordSet(p) ==
    LET ks == {p[i].keyword : i \in {j \in 1..Len(p) : p[j].keyword # NULL}}
        avg == [k \in ks |-> Avg(p, KeywordGroup(p, k))]
        first == [k \in ks |-> CHOOSE i \in KeywordGroup(p, k) :
                                    \A j \in KeywordGroup(p, k) : i <= j]
        before(a, b) == \/ avg[a] > avg[b]
                        \/ /\ avg[a] = avg[b]
                           /\ first[a] < first[b]
    IN  {k \in ks : Cardinality({a \in ks : before(a, k)}) < KeywordLimit /\ k # ""}

\* get_learned_weights
GetLearnedWeights(p) ==
    LET cs == {p[i].category : i \in {j \in 1..Len(p) : p[j].keyword = NULL}}
    IN  [categories |-> [c \in cs |-> Avg(p, CategoryGroup(p, c))],
         keywords |-> [k \in TopKeywordSet(p) |-> Avg(p, KeywordGroup(p, k))]]

-----------------------------------------------------------------------------
(* Engagement recorder: database.py *)

NewEngagement(hash, info, t) ==
    [article_hash |-> hash, info |-> info, clicked |-> 0, click_time |-> {},
     feedback |-> {}, feedback_time |-> {}, shown_at |-> t]

\* record_article_shown: INSERT OR IGNORE under UNIQUE(article_hash)
ShownReplace(e, hash, info, t) ==
    IF \E i \in 1..Len(e) : e[i].article_hash = hash
    THEN UpdateRows(e, LAMBDA r : r.article_hash = hash,
                    LAMBDA r : NewEngagement(hash, info, t))
    ELSE Append(e, NewEngagement(hash, info, t))
ShownInsert(e, hash, info, t) ==
    IF \E i \in 1..Len(e) : UniqueEq(e[i].article_hash, hash)
    THEN e
    ELSE Append(e, NewEngagement(hash, info, t))

\* record_click: UPDATE article_engagement SET clicked = 1, click_time = ?
ClickEngagement(e, hash, t) ==
    UpdateRows(e, LAMBDA r : r.article_hash = hash,
               LAMBDA r : [r EXCEPT !.clicked = 1, !.click_time = {t}])

\* as record_feedback, but a row that has a feedback value keeps it
FeedbackOnce(e, hash, value, t) ==
    UpdateRows(e, LAMBDA r : r.article_hash = hash /\ r.feedback = {},
               LAMBDA r : [r EXCEPT !.feedback = {value}, !.feedback_time = {t}])

\* record_feedback: UPDATE article_engagement SET feedback = ?, feedback_time = ?
FeedbackEngagement(e, hash, value, t) ==
    UpdateRows(e, LAMBDA r : r.article_hash = hash,
               LAMBDA r : [r EXCEPT !.feedback = {value}, !.feedback_time = {t}])

\* str(keywords) if keywords else "[]"
KeywordsJson(kws) == kws

Tables == [prefs |-> prefs, engagement |-> engagement,
           click_history |-> click_history, feedback_log |-> feedback_log]

Op(name, hash, type, category, kws, info, days, factor) ==
    [op |-> name, hash |-> hash, type |-> type, category |-> category,
     keywords |-> kws, info |-> info, days |-> days, factor |-> factor]

NoInfo == [title |-> "", source |-> "", category |-> "", url |-> ""]

\* the earlier processes are over and the behaviour may run another operation
Ready == seed.n = seed.target /\ steps < budget

\* record_article_shown(article_hash, title, source, category, url)
RecordArticleShown(hash, info) ==
    /\ Ready
    /\ engagement' = ShownInsert(engagement, hash, info, now)
    /\ steps' = steps + 1
    /\ last' = Op("shown", hash, "", "", <<>>, info, 0, 0)
    /\ pre' = Tables
    /\ UNCHANGED <<prefs, click_history, feedback_log, now, budget, seed, pc, dedupVars, allocVars, scoreVars, txnVars, apiVars, runVars, hookVars>>

\* record_click(article_hash, category)
RecordClick(hash, category) ==
    /\ Ready
    /\ engagement' = ClickEngagement(engagement, hash, now)
    /\ click_history' = Append(click_history,
            [article_hash |-> hash, category |-> category,
             keywords |-> KeywordsJson(<<>>), clicked_at |-> now])
    /\ prefs' = BoostPreference(prefs, category, NULL, ClickBoost, "click", now)
    /\ steps' = steps + 1
    /\ last' = Op("click", hash, "", category, <<>>, NoInfo, 0, 0)
    /\ pre' = Tables
    /\ UNCHANGED <<feedback_log, now, budget, seed, pc, dedupVars, allocVars, scoreVars, txnVars, apiVars, runVars, hookVars>>

\* record_feedback(article_hash, feedback_type, category, keywords)
RecordFeedback(hash, type, category, kws) ==
    /\ Ready
    /\ engagement' = FeedbackEngagement(engagement, hash, FeedbackValue(type), now)
    /\ feedback_log' = Append(feedback_log,
            [article_hash |-> hash, feedback_type |-> type, category |-> category,
             keywords |-> KeywordsJson(kws)])
    /\ prefs' = FeedbackPrefs(prefs, type, category, kws, now)
    /\ steps' = steps + 1
    /\ last' = Op("feedback", hash, type, category, kws, NoInfo, 0, 0)
    /\ pre' = Tables
    /\ UNCHANGED <<click_history, now, budget, seed, pc, dedupVars, allocVars, scoreVars, txnVars, apiVars, runVars, hookVars>>

\* decay_old_preferences(days, decay_factor)
DecayOldPreferences(days, factor) ==
    /\ Ready
    /\ prefs' = DecayPrefs(prefs, days, factor, now)
    /\ steps' = steps + 1
    /\ last' = Op("decay", "", "", "", <<>>, NoInfo, days, factor)
    /\ pre' = Tables
    /\ UNCHANGED <<engagement, click_history, feedback_log, now, budget, seed, pc, dedupVars, allocVars, scoreVars, txnVars, apiVars, runVars, hookVars>>

\* a day passes between two operations; cost is what the passage of a day
\* takes from the step budget of the specification
Tick(cost) ==
    /\ seed.n = seed.target
    /\ now < MaxTime
    /\ steps + cost <= budget
    /\ now' = now + 1
    /\ steps' = steps + cost
    /\ UNCHANGED <<prefs, engagement, click_history, feedback_log, budget, seed, last, pre, pc, dedupVars, allocVars, scoreVars, txnVars, apiVars, runVars, hookVars>>

\* The database file outlives the process: a process starts on the store that
\* earlier processes left.  Before the operations under study, an earlier process
\* calls record_feedback("h1", type, "politics", LongList) seed.target times.
EarlierFeedback ==
    /\ seed.n < seed.target
    /\ engagement' = FeedbackEngagement(engagement, "h1", FeedbackValue(seed.type), now)
    /\ feedback_log' = Append(feedback_log,
            [article_hash |-> "h1", feedback_type |-> seed.type, category |-> "politics",
             keywords |-> KeywordsJson(LongList)])
    /\ prefs' = FeedbackPrefs(prefs, seed.type, "politics", LongList, now)
    /\ seed' = [seed EXCEPT !.n = seed.n + 1]
    /\ last' = Op("feedback", "h1", seed.type, "politics", LongList, NoInfo, 0, 0)
    /\ pre' = Tables
    /\ UNCHANGED <<click_history, now, steps, budget, pc, dedupVars, allocVars, scoreVars, txnVars, apiVars, runVars, hookVars>>

Seeds == {[n |-> 0, target |-> 0, type |-> "like"],
          [n |-> 0, target |-> LowSeed, type |-> "dislike"],
          [n |-> 0, target |-> HighSeed, type |-> "like"]}

\* no batch is being deduplicated
DedupIdle ==
    /\ threshold = 0
    /\ batch = <<>>
    /\ similarity = <<>>
    /\ simFails = FALSE
    /\ deduped = <<>>
    /\ related_pairs = <<>>
    /\ relations = <<>>

\* no brief is being assembled
AllocIdle ==
    /\ scored = <<>>
    /\ section_specs = <<>>
    /\ sections = <<>>
    /\ used_links = {}

\* no process is inside a recorder operation
TxnIdle ==
    /\ procs = <<>>
    /\ lock = NULL
    /\ order = <<>>
    /\ started = <<>>
    /\ seen = {}

\* no request is being served
ApiIdle ==
    /\ request = <<>>
    /\ response = <<>>
    /\ forwarded = <<>>

\* the webhook server has just been started
NoReply == [status |-> 0, busy |-> FALSE, authorized |-> FALSE]
HookIdle ==
    /\ state = [running |-> FALSE, last_error |-> "none", last_trigger |-> 0, step |-> "none"]
    /\ wall = 0
    /\ tasks = <<>>
    /\ reply = NoReply
    /\ handled = 0

\* no curation run is in progress
RunIdle ==
    /\ curation_config = [state |-> "none"]
    /\ xsim = <<>>
    /\ xsimFails = FALSE
    /\ ranked = <<>>
    /\ run_start = <<>>

\* no article is being scored
ScoreIdle ==
    /\ article = NULL
    /\ learned = NULL
    /\ clock = 0
    /\ scores = <<>>

StoreInit ==
    /\ prefs = <<>>
    /\ feedback_log = <<>>
    /\ engagement = <<>>
    /\ click_history = <<>>
    /\ now = 0
    /\ steps = 0
    /\ last = Op("init", "", "", "", <<>>, NoInfo, 0, 0)
    /\ pre = Tables

\* the store is empty and no request is served
StoreIdle ==
    /\ StoreInit
    /\ seed = [n |-> 0, target |-> 0, type |-> "like"]
    /\ budget = 0

-----------------------------------------------------------------------------
(* Spec: the preference store under every feedback type, category and keyword list *)

Init ==
    /\ seed \in Seeds
    /\ budget = MaxSteps
    /\ StoreInit
    /\ pc = "idle" /\ DedupIdle /\ AllocIdle /\ ScoreIdle /\ TxnIdle /\ ApiIdle /\ RunIdle /\ HookIdle

Next ==
    \/ \E i \in {x \in Infos : x.title = "t1"} : RecordArticleShown("h1", i)
    \/ \E c \in Categories : RecordClick("h1", c)
    \/ \E ty \in FeedbackTypes, c \in Categories, ks \in KwLists :
            RecordFeedback("h1", ty, c, ks)
    \/ \E d \in DecayDays, f \in DecayFactors : DecayOldPreferences(d, f)
    \/ Tick(1)
    \/ EarlierFeedback

Spec == Init /\ [][Next]_vars

-----------------------------------------------------------------------------
(* SpecEngagement: the engagement table under every hash and article description *)

InitEngagement ==
    /\ seed = [n |-> 0, target |-> 0, type |-> "like"]
    /\ budget = MaxSteps + 2
    /\ StoreInit
    /\ pc = "idle" /\ DedupIdle /\ AllocIdle /\ ScoreIdle /\ TxnIdle /\ ApiIdle /\ RunIdle /\ HookIdle

NextEngagement ==
    \/ \E h \in Hashes, i \in Infos : RecordArticleShown(h, i)
    \/ \E h \in Hashes : RecordClick(h, "politics")
    \/ \E h \in Hashes, ty \in {"like", "dislike"} : RecordFeedback(h, ty, "politics", <<>>)
    \/ \E f \in DecayFactors : DecayOldPreferences(0, f)
    \/ Tick(0)

SpecEngagement == InitEngagement /\ [][NextEngagement]_vars

-----------------------------------------------------------------------------
(* SpecDecay: the decay pass over a store that earlier processes left *)

\* decay_after_days of a learning config that lets weights age for whole days
StaleDays == {1, 2}

\* the weights of a keyword row after one dislike, one like, two likes
LeftWeights == {9500, 10500, 11000}

\* a keyword row that record_feedback left, last updated age days ago
LeftRow(keyword, weight, age) ==
    [category |-> "politics", keyword |-> keyword, weight |-> weight,
     source |-> "feedback", updated_at |-> 0 - age]

\* the user_preferences tables of SpecDecay: one row, or two
LeftPrefs ==
    {<<LeftRow("election", w, a)>> : w \in LeftWeights, a \in 0..MaxAge}
    \cup {<<LeftRow("election", w, a), LeftRow("poll", w2, a2)>> :
            w \in LeftWeights, a \in 0..MaxAge, w2 \in {10500}, a2 \in {0, MaxAge}}

InitDecay ==
    /\ seed = [n |-> 0, target |-> 0, type |-> "like"]
    /\ budget = MaxSteps + 1
    /\ prefs \in LeftPrefs
    /\ feedback_log = <<>>
    /\ engagement = <<>>
    /\ click_history = <<>>
    /\ now = 0
    /\ steps = 0
    /\ last = Op("init", "", "", "", <<>>, NoInfo, 0, 0)
    /\ pre = Tables
    /\ pc = "idle" /\ DedupIdle /\ AllocIdle /\ ScoreIdle /\ TxnIdle /\ ApiIdle /\ RunIdle /\ HookIdle

NextDecay ==
    \/ \E d \in StaleDays, f \in {50, 95} : DecayOldPreferences(d, f)
    \/ RecordFeedback("h1", "like", "politics", <<"election">>)
    \/ Tick(0)

SpecDecay == InitDecay /\ [][NextDecay]_vars

-----------------------------------------------------------------------------
(* Deduplicator: curator.py, deduplicate_articles and its caller *)

\* similarity_matrix[i, j] for i < j
Sim(sm, i, j) == sm[<<i, j>>]

\* deduplicate_articles: sim >= threshold
StrictlyAbove(sim, th) == sim > th
AtLeast(sim, th) == sim >= th

\* deduplicate_articles, the body of the inner loop for the pair i < j
DedupPairAnyway(arts, sm, th, rth, i, j, st) ==
    LET sim == Sim(sm, i, j)
        rel == IF sim >= rth
               THEN Append(st.related, <<arts[i].article_hash, arts[j].article_hash, sim>>)
               ELSE st.related
        keep == IF AtLeast(sim, th)
                THEN IF arts[i].reliability >= arts[j].reliability
                     THEN [st.keep EXCEPT ![j] = FALSE]
                     ELSE [st.keep EXCEPT ![i] = FALSE]
                ELSE st.keep
    IN  [keep |-> keep, related |-> rel]
DedupPairFirst(arts, sm, th, rth, i, j, st) ==
    LET sim == Sim(sm, i, j)
        rel == IF sim >= rth
               THEN Append(st.related, <<arts[i].article_hash, arts[j].article_hash, sim>>)
               ELSE st.related
        keep == IF AtLeast(sim, th) /\ st.keep[i] /\ st.keep[j]
                THEN [st.keep EXCEPT ![j] = FALSE]
                ELSE st.keep
    IN  [keep |-> keep, related |-> rel]
DedupPair(arts, sm, th, rth, i, j, st) ==
    LET sim == Sim(sm, i, j)
        rel == IF sim >= rth
               THEN Append(st.related, <<arts[i].article_hash, arts[j].article_hash, sim>>)
               ELSE st.related
        keep == IF AtLeast(sim, th) /\ st.keep[i] /\ st.keep[j]
                THEN IF arts[i].reliability >= arts[j].reliability
                     THEN [st.keep EXCEPT ![j] = FALSE]
                     ELSE [st.keep EXCEPT ![i] = FALSE]
                ELSE st.keep
    IN  [keep |-> keep, related |-> rel]

\* deduplicate_articles, the two nested loops from the pair (i, j) on
RECURSIVE DedupLoop(_, _, _, _, _, _, _)
DedupLoop(arts, sm, th, rth, i, j, st) ==
    IF i > Len(arts) THEN st
    ELSE IF j > Len(arts) THEN DedupLoop(arts, sm, th, rth, i + 1, i + 2, st)
    ELSE DedupLoop(arts, sm, th, rth, i, j + 1, DedupPair(arts, sm, th, rth, i, j, st))

\* deduplicate_articles(articles, threshold, relation_threshold)
KeepBatch(arts, sm, fails, th, rth) ==
    [articles |-> arts, related_pairs |-> <<>>, keep |-> [i \in 1..Len(arts) |-> TRUE]]
DropBatch(arts, sm, fails, th, rth) ==
    [articles |-> <<>>, related_pairs |-> <<>>, keep |-> [i \in 1..Len(arts) |-> FALSE]]
DeduplicateArticles(arts, sm, fails, th, rth) ==
    IF Len(arts) < 2 \/ fails
    THEN [articles |-> arts, related_pairs |-> <<>>, keep |-> [i \in 1..Len(arts) |-> TRUE]]
    ELSE LET st == DedupLoop(arts, sm, th, rth, 1, 2,
                             [keep |-> [i \in 1..Len(arts) |-> TRUE], related |-> <<>>])
         IN  [articles |-> Select(arts, {i \in 1..Len(arts) : st.keep[i]}),
              related_pairs |-> st.related, keep |-> st.keep]

\* curate_articles: "same_story" if sim >= similarity_threshold else "related_topic"
AlwaysSameStory(sim, th) == "same_story"
RelationType(sim, th) == IF sim >= th THEN "same_story" ELSE "related_topic"

\* curate_articles: the loop over related_pairs calling record_article_relation
RECURSIVE RelationCalls(_, _)
RelationCalls(pairs, th) ==
    IF pairs = <<>> THEN <<>>
    ELSE <<[article_hash |-> Head(pairs)[1], related_hash |-> Head(pairs)[2],
            relation_type |-> RelationType(Head(pairs)[3], th),
            similarity_score |-> Head(pairs)[3]]>>
         \o RelationCalls(Tail(pairs), th)

\* curate_articles: articles, related_pairs = deduplicate_articles(articles, similarity_threshold)
Deduplicate ==
    /\ pc = "dedup"
    /\ LET r == DeduplicateArticles(batch, similarity, simFails, threshold, RelationThreshold)
       IN  /\ deduped' = r.articles
           /\ related_pairs' = r.related_pairs
    /\ pc' = "relations"
    /\ UNCHANGED <<storeVars, allocVars, scoreVars, txnVars, apiVars, runVars, hookVars, threshold, batch, similarity, simFails, relations>>

\* curate_articles: if related_pairs: for ...: record_article_relation(...)
RecordRelations ==
    /\ pc = "relations"
    /\ relations' = RelationCalls(related_pairs, threshold)
    /\ pc' = "scoring"
    /\ UNCHANGED <<storeVars, allocVars, scoreVars, txnVars, apiVars, runVars, hookVars, threshold, batch, similarity, simFails, deduped, related_pairs>>

\* the article at position i of a batch; the hash is derived from title and link
BatchHashes == <<"a1", "a2", "a3", "a4", "a5", "a6">>
Reliabilities == {8000, 9000}
SimLevels == {30, 45, 60, 70}
Thresholds == {40, 70}

PairsOf(n) == {p \in (1..n) \X (1..n) : p[1] < p[2]}

RECURSIVE SeqOf(_, _)
SeqOf(f, n) == IF n = 0 THEN <<>> ELSE Append(SeqOf(f, n - 1), f[n])

\* SpecDedup: deduplicate_articles and the relation records on every batch of up
\* to MaxBatch articles, every reliability and every similarity of the pairs
InitDedup ==
    /\ StoreIdle /\ AllocIdle /\ ScoreIdle /\ TxnIdle /\ ApiIdle /\ RunIdle /\ HookIdle
    /\ pc = "dedup"
    /\ deduped = <<>> /\ related_pairs = <<>> /\ relations = <<>>
    /\ threshold \in Thresholds
    /\ \E n \in 0..MaxBatch :
        /\ \E r \in [1..n -> Reliabilities] :
                batch = SeqOf([i \in 1..n |-> [article_hash |-> BatchHashes[i],
                                               reliability |-> r[i]]], n)
        /\ simFails \in (IF n < 2 THEN {FALSE} ELSE BOOLEAN)
        /\ similarity \in (IF simFails THEN {<<>>} ELSE [PairsOf(n) -> SimLevels])

NextDedup ==
    \/ Deduplicate
    \/ RecordRelations

SpecDedup == InitDedup /\ [][NextDedup]_vars

-----------------------------------------------------------------------------
(* Section allocator: curator.py, curate_articles, "Organize into sections" *)

\* if curated.article.link in used_links
NeverUsed(link, used) == FALSE
Used(link, used) == link \in used

\* if category and curated.article.category != category
Filtered(c, spec) == spec.category # NULL /\ spec.category # "" /\ c.category # spec.category

\* the inner loop over scored from position k on, for one section
RECURSIVE FillSection(_, _, _, _, _)
FillSection(sc, k, spec, acc, used) ==
    IF k > Len(sc) THEN [articles |-> acc, used |-> used]
    ELSE IF Used(sc[k].link, used) \/ Filtered(sc[k], spec)
         THEN FillSection(sc, k + 1, spec, acc, used)
         ELSE IF Len(acc) + 1 >= spec.count
              THEN [articles |-> Append(acc, sc[k]), used |-> used \cup {sc[k].link}]
              ELSE FillSection(sc, k + 1, spec, Append(acc, sc[k]), used \cup {sc[k].link})

\* sections[section_name] = section_articles
SetSection(secs, name, arts) ==
    [n \in (DOMAIN secs) \cup {name} |-> IF n = name THEN arts ELSE secs[n]]

\* the outer loop over the configured sections
RECURSIVE FillSections(_, _, _, _)
FillSections(sc, specs, secs, used) ==
    IF specs = <<>> THEN [sections |-> secs, used_links |-> used]
    ELSE LET r == FillSection(sc, 1, Head(specs), <<>>, used)
         IN  FillSections(sc, Tail(specs), SetSection(secs, Head(specs).name, r.articles), r.used)

\* curate_articles: sections = {}; used_links = set(); for section in ...
OrganizeSections ==
    /\ pc = "sections"
    /\ LET r == FillSections(scored, section_specs, <<>>, {})
       IN  /\ sections' = r.sections
           /\ used_links' = r.used_links
    /\ pc' = "shown"
    /\ UNCHANGED <<storeVars, dedupVars, scoreVars, txnVars, apiVars, runVars, hookVars, scored, section_specs>>

\* articles are told apart by their hash; two of them may share a link, and a
\* link may be the empty string
Placeable == {[link |-> "l1", category |-> "tech_ai"],
              [link |-> "l1", category |-> "politics"],
              [link |-> "l2", category |-> "tech_ai"],
              [link |-> "", category |-> "politics"]}

SectionNames == {"top", "tech"}
SectionCounts == {0, 1, 2}
SectionFilters == {NULL, "tech_ai"}
SectionSpecs == [name : SectionNames, count : SectionCounts, category : SectionFilters]

\* the scored list is sorted by score, best first: the article at position i
\* of n has score (n - i + 1) / 10
Curated(f, i, n) == [article_hash |-> BatchHashes[i], link |-> f[i].link,
                     category |-> f[i].category, score |-> (n - i + 1) * 1000]

\* SpecAlloc: the allocation on every scored list of up to MaxScored articles
\* and every list of up to MaxSections section specs
InitAlloc ==
    /\ StoreIdle /\ DedupIdle /\ ScoreIdle /\ TxnIdle /\ ApiIdle /\ RunIdle /\ HookIdle
    /\ pc = "sections"
    /\ sections = <<>>
    /\ used_links = {}
    /\ \E n \in 0..MaxScored : \E f \in [1..n -> Placeable] :
            scored = SeqOf([i \in 1..n |-> Curated(f, i, n)], n)
    /\ \E m \in 0..MaxSections : \E g \in [1..m -> SectionSpecs] :
            section_specs = SeqOf(g, m)

NextAlloc == OrganizeSections

SpecAlloc == InitAlloc /\ [][NextAlloc]_vars

-----------------------------------------------------------------------------
(* Scorer: curator.py, calculate_base_score *)

\* config/curation.yaml as handed to calculate_base_score
Config == [user_interests |->
              [categories |-> [c \in {"tech_ai"} |-> 12000],
               keywords |-> [high_priority |-> <<"ai">>,
                             medium_priority |-> <<"election">>,
                             low_priority |-> <<"poll">>]],
           scoring |-> [reliability_weight |-> 2500, high_reliability_bonus |-> 1000]]

\* kw.lower() in text, for some kw of the list
AnyIn(kws, text) == \E i \in 1..Len(kws) : kws[i] \in text

\* 'arxiv' not in article.link and 'reddit.com' not in article.link
ExemptLinks == {"https://arxiv.org/abs/1", "https://reddit.com/r/1"}

\* the sum of f over the set S
RECURSIVE SumOver(_, _)
SumOver(f, S) ==
    IF S = {} THEN 0
    ELSE LET x == CHOOSE y \in S : TRUE IN f[x] + SumOver(f, S \ {x})

\* the recency bonus: age < 3h, < 6h, < 12h
RecencyBonus(age) ==
    IF age < 3 THEN 1500
    ELSE IF age < 6 THEN 1000
    ELSE IF age < 12 THEN 500
    ELSE 0

\* the content quality signals
NoContentBonus(a) == 0
ContentBonus(a) ==
    IF a.full_text.len > 0
    THEN (IF a.full_text.len > 500 THEN 1000 ELSE 0)
         + (IF a.full_text.quote THEN 500 ELSE 0)
         + (IF a.full_text.figures THEN 500 ELSE 0)
    ELSE IF a.link # "" /\ a.link \notin ExemptLinks THEN 0 - 1000 ELSE 0

\* calculate_base_score(article, config, learned_weights), called at time t
CalculateBaseScore(a, config, lw, t) ==
    LET interests == config.user_interests
        base == IF a.category \in DOMAIN interests.categories
                THEN interests.categories[a.category] ELSE NeutralWeight
        category_weight == IF a.category \in DOMAIN lw.categories
                           THEN (base * lw.categories[a.category]) \div Scale
                           ELSE base
        hits == {k \in DOMAIN lw.keywords : k \in a.text}
        score == (5000 * category_weight) \div Scale
                 + (IF AnyIn(interests.keywords.high_priority, a.text) THEN 3000 ELSE 0)
                 + (IF AnyIn(interests.keywords.medium_priority, a.text) THEN 2000 ELSE 0)
                 + (IF AnyIn(interests.keywords.low_priority, a.text) THEN 1000 ELSE 0)
                 + SumOver([k \in hits |-> (lw.keywords[k] - NeutralWeight) \div 10], hits)
                 + (a.reliability * config.scoring.reliability_weight) \div Scale
                 + (IF a.reliability >= 9000 THEN config.scoring.high_reliability_bonus ELSE 0)
                 + RecencyBonus(t - a.published)
                 + ContentBonus(a)
                 - (IF a.clickbait THEN 1500 ELSE 0)
    IN  Min(score, 20000)

\* one call of calculate_base_score on the article, at the current time
ScoreArticle ==
    /\ pc = "score"
    /\ Len(scores) < MaxCalls
    /\ scores' = Append(scores, [at |-> clock,
                                 score |-> CalculateBaseScore(article, Config, learned, clock)])
    /\ UNCHANGED <<storeVars, dedupVars, allocVars, txnVars, apiVars, runVars, hookVars, pc, article, learned, clock>>

\* an hour passes
ClockTick ==
    /\ pc = "score"
    /\ clock < MaxClock
    /\ clock' = clock + 1
    /\ UNCHANGED <<storeVars, dedupVars, allocVars, txnVars, apiVars, runVars, hookVars, pc, article, learned, scores>>

FullTexts == {[len |-> 0, quote |-> FALSE, figures |-> FALSE],
              [len |-> 300, quote |-> TRUE, figures |-> FALSE],
              [len |-> 600, quote |-> TRUE, figures |-> TRUE]}

ScoredArticles ==
    [category : Categories,
     text : {{}, {"ai"}, {"election", "poll"}},
     reliability : {8000, 9500},
     published : {0},
     full_text : FullTexts,
     link : {"", "https://arxiv.org/abs/1", "https://example.com/a"},
     clickbait : BOOLEAN]

LearnedWeights ==
    {[categories |-> <<>>, keywords |-> <<>>],
     [categories |-> [c \in {"tech_ai"} |-> 15000],
      keywords |-> [k \in {"election", "poll"} |-> IF k = "poll" THEN 9500 ELSE 12000]]}

\* SpecScore: calls of the scorer on one article, the same config and the same
\* learned weights, at different times
InitScore ==
    /\ StoreIdle /\ DedupIdle /\ AllocIdle /\ TxnIdle /\ ApiIdle /\ RunIdle /\ HookIdle
    /\ pc = "score"
    /\ article \in ScoredArticles
    /\ learned \in LearnedWeights
    /\ clock = 0
    /\ scores = <<>>

NextScore ==
    \/ ScoreArticle
    \/ ClockTick

SpecScore == InitScore /\ [][NextScore]_vars

-----------------------------------------------------------------------------
(* Transactions: database.py, get_connection around record_click and          *)
(* record_feedback, one statement at a time, in concurrent processes          *)

Procs == {"p1", "p2"}

\* the calls the concurrent processes make
Calls == {[op |-> "click", hash |-> "h1", type |-> "", category |-> "politics", keywords |-> <<>>],
          [op |-> "feedback", hash |-> "h1", type |-> "like", category |-> "politics",
           keywords |-> <<"election", "poll">>],
          [op |-> "feedback", hash |-> "h1", type |-> "dislike", category |-> "politics",
           keywords |-> <<"election">>]}

\* the boost statements of record_feedback for keywords[:5]
RECURSIVE KeywordStatements(_, _)
KeywordStatements(kws, boost) ==
    IF kws = <<>> THEN <<>>
    ELSE <<[kind |-> "boost", keyword |-> Head(kws), boost |-> boost]>>
         \o KeywordStatements(Tail(kws), boost)

\* the cursor.execute calls of record_click and of record_feedback, in order
Statements(call) ==
    IF call.op = "click"
    THEN <<[kind |-> "engagement", keyword |-> NULL, boost |-> 0],
           [kind |-> "log", keyword |-> NULL, boost |-> 0],
           [kind |-> "boost", keyword |-> NULL, boost |-> ClickBoost]>>
    ELSE LET boost == IF FeedbackValue(call.type) > 0 THEN FeedbackBoost ELSE 0 - FeedbackBoost
         IN  <<[kind |-> "engagement", keyword |-> NULL, boost |-> 0],
               [kind |-> "log", keyword |-> NULL, boost |-> 0],
               [kind |-> "boost", keyword |-> NULL, boost |-> boost]>>
             \o KeywordStatements(FirstFive(call.keywords), boost \div 2)

\* one cursor.execute of the call, at time t, on the tables tb
ApplyStatement(tb, call, st, t) ==
    IF st.kind = "engagement"
    THEN [tb EXCEPT !.engagement =
            IF call.op = "click" THEN ClickEngagement(@, call.hash, t)
            ELSE FeedbackEngagement(@, call.hash, FeedbackValue(call.type), t)]
    ELSE IF st.kind = "log"
    THEN IF call.op = "click"
         THEN [tb EXCEPT !.click_history = Append(@,
                    [article_hash |-> call.hash, category |-> call.category,
                     keywords |-> KeywordsJson(<<>>), clicked_at |-> t])]
         ELSE [tb EXCEPT !.feedback_log = Append(@,
                    [article_hash |-> call.hash, feedback_type |-> call.type,
                     category |-> call.category, keywords |-> KeywordsJson(call.keywords)])]
    ELSE [tb EXCEPT !.prefs = BoostPreference(@, call.category, st.keyword, st.boost, call.op, t)]

\* the statements in done, a sequence of <<statement, time>>, run on tb
RECURSIVE RunStatements(_, _, _)
RunStatements(tb, call, done) ==
    IF done = <<>> THEN tb
    ELSE RunStatements(ApplyStatement(tb, call, Head(done)[1], Head(done)[2]), call, Tail(done))

\* the time a statement carries: record_click reads datetime.now() once, on
\* entry, for its first two statements; every other statement reads it when
\* it is issued
StatementTime(p, k) ==
    IF procs[p].call.op = "click" /\ k <= 2 THEN procs[p].entered ELSE now

\* the file when a connection closes without commit: the journal is rolled back
KeepPartial(committed, work) == work
Rollback(committed, work) == committed

\* whether process p may start a write transaction: sqlite3 lets one
\* connection at a time hold the write lock of the file
LockFree(p) == lock = NULL \/ lock = p

SetTables(tb) ==
    /\ prefs' = tb.prefs
    /\ engagement' = tb.engagement
    /\ click_history' = tb.click_history
    /\ feedback_log' = tb.feedback_log

frame == <<now, steps, budget, seed, last, pre, pc, dedupVars, allocVars, scoreVars, runVars, hookVars, apiVars>>

EmptyTables == [prefs |-> <<>>, engagement |-> <<>>, click_history |-> <<>>, feedback_log |-> <<>>]

\* a process outside any operation; work is the uncommitted content of its
\* transaction once its first statement has run
IdleProc == [status |-> "idle", call |-> NULL, entered |-> 0, done |-> <<>>, work |-> EmptyTables]

\* process p enters record_click or record_feedback and opens its connection
Begin(p, call) ==
    /\ seed.n = seed.target
    /\ procs[p].status = "idle"
    /\ procs' = [procs EXCEPT ![p] = [status |-> "running", call |-> call, entered |-> now,
                                      done |-> <<>>, work |-> EmptyTables]]
    /\ started' = IF \A q \in Procs : procs[q].status = "idle" THEN Tables ELSE started
    /\ UNCHANGED <<prefs, engagement, click_history, feedback_log, lock, order, seen, frame>>

\* process p runs its next cursor.execute; the first one starts the write
\* transaction, and waits while another process holds the write lock
Execute(p) ==
    /\ procs[p].status = "running"
    /\ Len(procs[p].done) < Len(Statements(procs[p].call))
    /\ LockFree(p)
    /\ LET k == Len(procs[p].done) + 1
           st == Statements(procs[p].call)[k]
           t == StatementTime(p, k)
           tb == IF procs[p].done = <<>> THEN Tables ELSE procs[p].work
       IN  procs' = [procs EXCEPT ![p].done = Append(@, <<st, t>>),
                                  ![p].work = ApplyStatement(tb, procs[p].call, st, t)]
    /\ lock' = p
    /\ UNCHANGED <<prefs, engagement, click_history, feedback_log, order, started, seen, frame>>

\* get_connection: the with block ends normally, conn.commit(), conn.close()
Commit(p) ==
    /\ procs[p].status = "running"
    /\ Len(procs[p].done) = Len(Statements(procs[p].call))
    /\ SetTables(procs[p].work)
    /\ procs' = [procs EXCEPT ![p].status = "committed", ![p].work = EmptyTables]
    /\ lock' = IF lock = p THEN NULL ELSE lock
    /\ order' = Append(order, p)
    /\ UNCHANGED <<started, seen, frame>>

\* get_connection: a statement (or the wait for the write lock, or the commit)
\* raises; conn.close() without commit
Abort(p) ==
    /\ procs[p].status = "running"
    /\ SetTables(Rollback(Tables, IF procs[p].done = <<>> THEN Tables ELSE procs[p].work))
    /\ procs' = [procs EXCEPT ![p].status = "failed", ![p].work = EmptyTables]
    /\ lock' = IF lock = p THEN NULL ELSE lock
    /\ UNCHANGED <<order, started, seen, frame>>

\* another process calls get_learned_weights on its own connection
ReadWeights ==
    /\ seed.n = seed.target
    /\ seen' = seen \cup {GetLearnedWeights(prefs)}
    /\ UNCHANGED <<prefs, engagement, click_history, feedback_log, procs, lock, order, started, frame>>

\* SpecTxn: two processes run recorder operations statement by statement on a
\* store that an earlier feedback wrote, with failures and a concurrent reader
InitTxn ==
    /\ StoreInit
    /\ seed = [n |-> 0, target |-> 1, type |-> "like"]
    /\ budget = 0
    /\ pc = "idle" /\ DedupIdle /\ AllocIdle /\ ScoreIdle /\ RunIdle /\ ApiIdle /\ HookIdle
    /\ procs = [p \in Procs |-> IdleProc]
    /\ lock = NULL
    /\ order = <<>>
    /\ started = EmptyTables
    /\ seen = {}

NextTxn ==
    \/ EarlierFeedback
    \/ \E p \in Procs, c \in Calls : Begin(p, c)
    \/ \E p \in Procs : Execute(p)
    \/ \E p \in Procs : Commit(p)
    \/ \E p \in Procs : Abort(p)
    \/ ReadWeights
    \/ Tick(0)

SpecTxn == InitTxn /\ [][NextTxn]_vars

-----------------------------------------------------------------------------
(* Curation run: curator.py, curate_articles, and utils/reliability.py,         *)
(* calculate_cross_reference_bonus                                            *)

\* d.get(key, default) on a mapping of the config document
Get(d, key, default) == IF key \in DOMAIN d THEN d[key] ELSE default

\* config.get("scoring", {}), config.get("dedup", {}), ...
Part(doc, key) == Get(doc, key, <<>>)

\* section["name"], section.get("count", 5), section.get("category")
SectionSpec(section) ==
    [name |-> section.name,
     count |-> Get(section, "count", DefaultCount),
     category |-> Get(section, "category", NULL)]

\* brief_config.get("sections", [])
SectionList(doc) ==
    LET listed == Get(Part(doc, "daily_brief"), "sections", <<>>)
    IN  SeqOf([i \in 1..Len(listed) |-> SectionSpec(listed[i])], Len(listed))

\* config = load_curation_config(config_path) and the values read from it.  A
\* file that is absent or is not YAML raises out of curate_articles, and so
\* does config.get on the None of an empty file.
LoadCurationConfig ==
    /\ pc = "config"
    /\ IF curation_config.state = "loaded"
       THEN /\ threshold' = Get(Part(curation_config.doc, "dedup"),
                                "similarity_threshold", DefaultThreshold)
            /\ section_specs' = SectionList(curation_config.doc)
            /\ pc' = "weights"
       ELSE /\ pc' = "fatal"
            /\ UNCHANGED <<threshold, section_specs>>
    /\ UNCHANGED <<storeVars, scoreVars, txnVars, apiVars, runVars, hookVars, batch, similarity, simFails,
                   deduped, related_pairs, relations, scored, sections, used_links>>

\* learned_weights = get_learned_weights()
LoadWeights ==
    /\ pc = "weights"
    /\ learned' = GetLearnedWeights(prefs)
    /\ run_start' = Tables
    /\ pc' = "decay"
    /\ UNCHANGED <<storeVars, dedupVars, allocVars, txnVars, apiVars, article, clock, scores,
                   curation_config, xsim, xsimFails, ranked, hookVars>>

\* decay_old_preferences(days=decay_days, decay_factor=decay_factor)
RunDecay ==
    /\ pc = "decay"
    /\ LET learning == Part(curation_config.doc, "learning")
           days == Get(learning, "decay_after_days", DefaultDecayDays)
           factor == Get(learning, "decay_factor", DefaultDecayFactor)
       IN  /\ prefs' = DecayPrefs(prefs, days, factor, now)
           /\ last' = Op("decay", "", "", "", <<>>, NoInfo, days, factor)
    /\ pre' = Tables
    /\ pc' = "dedup"
    /\ UNCHANGED <<engagement, click_history, feedback_log, now, steps, budget, seed,
                   dedupVars, allocVars, scoreVars, txnVars, apiVars, runVars, hookVars>>

\* CuratedArticle(article=article, score=score)
CuratedArticle(a, score) ==
    [f \in (DOMAIN a) \cup {"score"} |-> IF f = "score" THEN score ELSE a[f]]

\* the weights the scoring loop hands to calculate_base_score
CurrentWeights == GetLearnedWeights(prefs)
SnapshotWeights == learned

\* for article in articles: score = calculate_base_score(...);
\* if score >= min_score: scored.append(...)
RECURSIVE ScoreLoop(_, _, _, _, _)
ScoreLoop(arts, k, doc, lw, t) ==
    IF k > Len(arts) THEN <<>>
    ELSE LET score == CalculateBaseScore(arts[k], doc, lw, t)
             rest == ScoreLoop(arts, k + 1, doc, lw, t)
         IN  IF score >= Get(Part(doc, "scoring"), "min_score", DefaultMinScore)
             THEN <<CuratedArticle(arts[k], score)>> \o rest
             ELSE rest

\* list.sort(key=lambda c: c.score, reverse=True): stable, so that elements of
\* equal score keep the order they had in the list
InsertByScore(sorted, x) ==
    LET k == Cardinality({i \in 1..Len(sorted) : sorted[i].score >= x.score})
    IN  SubSeq(sorted, 1, k) \o <<x>> \o SubSeq(sorted, k + 1, Len(sorted))

RECURSIVE SortByScore(_)
SortByScore(s) ==
    IF s = <<>> THEN <<>>
    ELSE InsertByScore(SortByScore(SubSeq(s, 1, Len(s) - 1)), s[Len(s)])

\* the scoring loop and the first sort
ScoreArticles ==
    /\ pc = "scoring"
    /\ scored' = SortByScore(ScoreLoop(deduped, 1, curation_config.doc, SnapshotWeights, clock))
    /\ pc' = "boost"
    /\ UNCHANGED <<storeVars, dedupVars, scoreVars, txnVars, apiVars, runVars, hookVars,
                   section_specs, sections, used_links>>

\* the position in the batch of the article of this hash
PosOf(hash) == CHOOSE i \in 1..Len(BatchHashes) : BatchHashes[i] = hash

\* cosine_similarity(tfidf_matrix[0:1], tfidf_matrix[1:]) for one other title
XSim(a, b) ==
    LET i == PosOf(a.article_hash)
        j == PosOf(b.article_hash)
    IN  xsim[<<Min(i, j), Max(i, j)>>]

\* calculate_cross_reference_bonus(article_title, all_articles)
CalculateCrossReferenceBonus(a, all) ==
    LET others == {j \in 1..Len(all) : all[j].title # a.title}
        similar_count == Cardinality({j \in others : XSim(a, all[j]) >= CrossRefThreshold})
    IN  IF Len(all) < 2 THEN 0
        ELSE IF others = {} THEN 0
        ELSE IF xsimFails THEN 0
        ELSE IF similar_count >= 3 THEN 3000
        ELSE IF similar_count >= 2 THEN 2000
        ELSE IF similar_count >= 1 THEN 1500
        ELSE 0

\* the cross-reference loop and the second sort, which runs if boosted
CrossReference ==
    /\ pc = "boost"
    /\ LET cross_ref_weight == Get(Part(curation_config.doc, "scoring"),
                                   "cross_reference_bonus", DefaultCrossRefWeight)
           bonus == [i \in 1..Len(scored) |-> CalculateCrossReferenceBonus(scored[i], scored)]
           after == [i \in 1..Len(scored) |->
                        IF bonus[i] > 0
                        THEN [scored[i] EXCEPT
                                !.score = @ + (bonus[i] * cross_ref_weight) \div Scale]
                        ELSE scored[i]]
           boosted == Cardinality({i \in 1..Len(scored) : bonus[i] > 0})
       IN  /\ scored' = IF boosted # 0 THEN SortByScore(SeqOf(after, Len(scored)))
                         ELSE SeqOf(after, Len(scored))
           /\ ranked' = SeqOf([i \in 1..Len(scored) |->
                                  [article_hash |-> scored[i].article_hash,
                                   base |-> scored[i].score, bonus |-> bonus[i]]],
                              Len(scored))
    /\ pc' = "sections"
    /\ UNCHANGED <<storeVars, dedupVars, scoreVars, txnVars, apiVars, curation_config, xsim,
                   xsimFails, run_start, section_specs, sections, used_links, hookVars>>

\* the section names in the order in which sections.items() yields them
RECURSIVE SectionOrder(_, _)
SectionOrder(specs, names) ==
    IF specs = <<>> THEN names
    ELSE SectionOrder(Tail(specs),
                      IF \E i \in 1..Len(names) : names[i] = Head(specs).name
                      THEN names ELSE Append(names, Head(specs).name))

\* the items of the returned sections, section by section
ScoredItems(secs, names) == scored
RECURSIVE ShownItems(_, _)
ShownItems(secs, names) ==
    IF names = <<>> THEN <<>> ELSE secs[Head(names)] \o ShownItems(secs, Tail(names))

\* record_article_shown for each item in turn
RECURSIVE ShowAll(_, _, _)
ShowAll(e, items, t) ==
    IF items = <<>> THEN e
    ELSE ShowAll(ShownInsert(e, Head(items).article_hash,
                             [title |-> Head(items).title, source |-> Head(items).source,
                              category |-> Head(items).category, url |-> Head(items).link],
                             t),
                 Tail(items), t)

\* "Track articles shown", then return sections.  The loop is one connection
\* per item; an update of another process between two items finds the rows it
\* would find before the loop or after it, so the loop is taken in one step.
TrackShown ==
    /\ pc = "shown"
    /\ engagement' = ShowAll(engagement, ShownItems(sections, SectionOrder(section_specs, <<>>)), now)
    /\ pc' = "returned"
    /\ UNCHANGED <<prefs, click_history, feedback_log, now, steps, budget, seed, last, pre,
                   dedupVars, allocVars, scoreVars, txnVars, apiVars, runVars, hookVars>>

\* a config document with every key the run reads
BriefDoc(brief, min_score) ==
    [user_interests |-> Config.user_interests,
     scoring |-> [reliability_weight |-> 2500, high_reliability_bonus |-> 1000,
                  min_score |-> min_score, cross_reference_bonus |-> 1500],
     dedup |-> [similarity_threshold |-> 70],
     learning |-> [decay_after_days |-> 0, decay_factor |-> 50],
     daily_brief |-> brief]

RunDoc(sects, min_score) == BriefDoc([sections |-> sects], min_score)

\* the config files of SpecRun: no file, a file that is not YAML, an empty
\* file, and documents whose brief has one section of one article, two
\* sections of the same name, a section without count, no sections key
RunConfigs ==
    {[state |-> "missing"], [state |-> "malformed"], [state |-> "empty"],
     [state |-> "loaded", doc |-> RunDoc(<<[name |-> "top", count |-> 1]>>, 2500)],
     [state |-> "loaded", doc |-> RunDoc(<<[name |-> "top", count |-> 1],
                                          [name |-> "top", count |-> 1]>>, 2500)],
     [state |-> "loaded", doc |-> RunDoc(<<[name |-> "top"]>>, 2500)],
     [state |-> "loaded", doc |-> BriefDoc([title |-> "BRIEF"], 2500)]}

\* an article of the fetched batch
RunArticle(i, category, text, reliability, link, clickbait) ==
    [article_hash |-> BatchHashes[i], title |-> BatchHashes[i], source |-> "feed",
     link |-> link, category |-> category, text |-> text, reliability |-> reliability,
     published |-> 0, full_text |-> [len |-> 0, quote |-> FALSE, figures |-> FALSE],
     clickbait |-> clickbait]

RunLinks == <<"l1", "l2", "l3", "l4">>
RunInfo == [title |-> "earlier", source |-> "feed", category |-> "politics", url |-> "l1"]

\* SpecRun: one curation run over a batch of up to MaxRunBatch articles on
\* politics, under each of the config files, while other processes record
\* clicks, feedback and articles shown
InitRun ==
    /\ StoreInit
    /\ seed = [n |-> 0, target |-> 0, type |-> "like"]
    /\ budget = MaxSteps
    /\ AllocIdle /\ ScoreIdle /\ TxnIdle /\ ApiIdle /\ HookIdle
    /\ pc = "config"
    /\ curation_config \in RunConfigs
    /\ threshold = 0
    /\ deduped = <<>> /\ related_pairs = <<>> /\ relations = <<>>
    /\ ranked = <<>>
    /\ run_start = <<>>
    /\ simFails = FALSE /\ xsimFails = FALSE
    /\ \E n \in 0..MaxRunBatch :
        /\ batch = SeqOf([i \in 1..n |->
                            RunArticle(i, "politics", {"election"}, 8000, RunLinks[i], FALSE)], n)
        /\ similarity = [p \in PairsOf(n) |-> 30]
        /\ xsim = [p \in PairsOf(n) |-> 30]

NextRun ==
    \/ LoadCurationConfig
    \/ LoadWeights
    \/ RunDecay
    \/ Deduplicate
    \/ RecordRelations
    \/ ScoreArticles
    \/ CrossReference
    \/ OrganizeSections
    \/ TrackShown
    \/ RecordArticleShown("a1", RunInfo)
    \/ RecordClick("a1", "politics")
    \/ RecordFeedback("a1", "like", "politics", <<"election">>)
    \/ pc = "config" /\ Tick(0)

SpecRun == InitRun /\ [][NextRun]_vars

\* the kinds of article of SpecPipeline: text, reliability and clickbait, with
\* base scores 0.9250, 0.9475 and 0.5750
Kinds == {[text |-> {"election"}, reliability |-> 7000, clickbait |-> FALSE],
          [text |-> {"election"}, reliability |-> 7900, clickbait |-> FALSE],
          [text |-> {}, reliability |-> 7000, clickbait |-> TRUE]}

\* what the two vectorizers find for a pair of titles: unrelated; related and
\* close enough for the cross-reference bonus; the same story
PairLevels == {[sim |-> 30, xsim |-> 30], [sim |-> 60, xsim |-> 75], [sim |-> 80, xsim |-> 80]}

PipeSections == <<[name |-> "top", count |-> 2], [name |-> "more"]>>

\* SpecPipeline: one curation run, alone, on every batch of up to MaxPipeBatch
\* articles of these kinds, every similarity of the pairs and every failure of
\* the two vectorizers; a vectorizer that fails on the titles of the batch
\* fails on the titles of the scored articles, which are among them
InitPipeline ==
    /\ StoreIdle /\ AllocIdle /\ ScoreIdle /\ TxnIdle /\ ApiIdle /\ HookIdle
    /\ pc = "config"
    /\ curation_config = [state |-> "loaded", doc |-> RunDoc(PipeSections, 6000)]
    /\ threshold = 0
    /\ deduped = <<>> /\ related_pairs = <<>> /\ relations = <<>>
    /\ ranked = <<>>
    /\ run_start = <<>>
    /\ \E n \in 0..MaxPipeBatch :
        /\ \E k \in [1..n -> Kinds] :
                batch = SeqOf([i \in 1..n |->
                                RunArticle(i, "politics", k[i].text, k[i].reliability,
                                           RunLinks[i], k[i].clickbait)], n)
        /\ simFails \in (IF n < 2 THEN {FALSE} ELSE BOOLEAN)
        /\ xsimFails \in (IF simFails THEN {TRUE} ELSE BOOLEAN)
        /\ \E l \in [PairsOf(n) -> PairLevels] :
            /\ similarity = (IF simFails THEN <<>> ELSE [p \in PairsOf(n) |-> l[p].sim])
            /\ xsim = (IF xsimFails THEN <<>> ELSE [p \in PairsOf(n) |-> l[p].xsim])

NextPipeline ==
    \/ LoadCurationConfig
    \/ LoadWeights
    \/ RunDecay
    \/ Deduplicate
    \/ RecordRelations
    \/ ScoreArticles
    \/ CrossReference
    \/ OrganizeSections
    \/ TrackShown

SpecPipeline == InitPipeline /\ [][NextPipeline]_vars

\* the kinds of article of SpecBoost: a long article on tech_ai from a source
\* of reliability 0.95 with a keyword of each tier, a quote and figures (base
\* score 0.75 + 0.6 + 0.2375 + 0.1 + 0.15 + 0.2, capped at 2.0), a short one on
\* politics (0.9250), and clickbait (0.5750, below the min_score of 0.6)
BoostKinds ==
    {[category |-> "tech_ai", text |-> {"ai", "election", "poll"}, reliability |-> 9500,
      clickbait |-> FALSE, full_text |-> [len |-> 600, quote |-> TRUE, figures |-> TRUE]],
     [category |-> "politics", text |-> {"election"}, reliability |-> 9000,
      clickbait |-> FALSE, full_text |-> [len |-> 0, quote |-> FALSE, figures |-> FALSE]],
     [category |-> "politics", text |-> {"election"}, reliability |-> 8000,
      clickbait |-> TRUE, full_text |-> [len |-> 0, quote |-> FALSE, figures |-> FALSE]]}

BoostArticle(i, k) ==
    [RunArticle(i, k.category, k.text, k.reliability, RunLinks[i], k.clickbait)
        EXCEPT !.full_text = k.full_text]

\* the config file of SpecBoost: tech_ai weighs 1.5
BoostDoc ==
    [RunDoc(PipeSections, 6000)
        EXCEPT !.user_interests.categories = [c \in {"tech_ai"} |-> 15000]]

\* SpecBoost: one curation run, alone, on every batch of up to MaxBoostBatch
\* articles of these kinds, every similarity of the pairs and every failure of
\* the two vectorizers
InitBoost ==
    /\ StoreIdle /\ AllocIdle /\ ScoreIdle /\ TxnIdle /\ ApiIdle /\ HookIdle
    /\ pc = "config"
    /\ curation_config = [state |-> "loaded", doc |-> BoostDoc]
    /\ threshold = 0
    /\ deduped = <<>> /\ related_pairs = <<>> /\ relations = <<>>
    /\ ranked = <<>>
    /\ run_start = <<>>
    /\ \E n \in 0..MaxBoostBatch :
        /\ \E k \in [1..n -> BoostKinds] :
                batch = SeqOf([i \in 1..n |-> BoostArticle(i, k[i])], n)
        /\ simFails \in (IF n < 2 THEN {FALSE} ELSE BOOLEAN)
        /\ xsimFails \in (IF simFails THEN {TRUE} ELSE BOOLEAN)
        /\ \E l \in [PairsOf(n) -> PairLevels] :
            /\ similarity = (IF simFails THEN <<>> ELSE [p \in PairsOf(n) |-> l[p].sim])
            /\ xsim = (IF xsimFails THEN <<>> ELSE [p \in PairsOf(n) |-> l[p].xsim])

SpecBoost == InitBoost /\ [][NextPipeline]_vars

-----------------------------------------------------------------------------
(* Feedback ingress: api.py, receive_feedback *)

\* a whole record_click or record_feedback, committed, at time t
RunCall(tb, call, t) ==
    LET sts == Statements(call)
    IN  RunStatements(tb, call, SeqOf([i \in 1..Len(sts) |-> <<sts[i], t>>], Len(sts)))

\* the event is passed over: continue, or no branch taken
SkipCounted(st) == [st EXCEPT !.processed = @ + 1]
Skip(st) == st

\* record_click(article_hash=..., category=...) or record_feedback(
\* article_hash=..., feedback_type=..., category=...); processed += 1
Forward(st, call, t) ==
    [tables |-> RunCall(st.tables, call, t),
     calls |-> Append(st.calls, call),
     processed |-> st.processed + 1]

\* the body of the loop over the events
HandleEvent(st, event, t) ==
    LET event_type == Get(event, "type", NULL)
        article_hash == Get(event, "hash", NULL)
        category == Get(event, "category", "")
    IN  IF article_hash = NULL \/ article_hash = "" THEN Skip(st)
        ELSE IF event_type = "click"
        THEN Forward(st, [op |-> "click", hash |-> article_hash, type |-> "",
                          category |-> category, keywords |-> <<>>], t)
        ELSE IF event_type = "feedback"
        THEN LET action == Get(event, "action", NULL)
             IN  IF action \in {"like", "dislike"}
                 THEN Forward(st, [op |-> "feedback", hash |-> article_hash,
                                   type |-> IF action = "like" THEN "like" ELSE "dislike",
                                   category |-> category, keywords |-> <<>>], t)
                 ELSE Skip(st)
        ELSE Skip(st)

\* for event in events
RECURSIVE EventLoop(_, _, _)
EventLoop(st, events, t) ==
    IF events = <<>> THEN st
    ELSE EventLoop(HandleEvent(st, Head(events), t), Tail(events), t)

\* POST /api/feedback
ReceiveFeedback ==
    /\ pc = "request"
    /\ IF "events" \notin DOMAIN request
       THEN /\ response' = [status |-> 400, body |-> [error |-> "Missing events"]]
            /\ UNCHANGED <<prefs, engagement, click_history, feedback_log, forwarded>>
       ELSE LET st == EventLoop([tables |-> Tables, calls |-> <<>>, processed |-> 0],
                                request.events, now)
            IN  /\ SetTables(st.tables)
                /\ forwarded' = st.calls
                /\ response' = [status |-> 200,
                                body |-> [status |-> "ok", processed |-> st.processed]]
    /\ pre' = Tables
    /\ last' = Op("api", "", "", "", <<>>, NoInfo, 0, 0)
    /\ pc' = "responded"
    /\ UNCHANGED <<now, steps, budget, seed, dedupVars, allocVars, scoreVars, txnVars,
                   runVars, hookVars, request>>

\* the events a client sends: a click, a like, a dislike without category,
\* and events without hash, of unknown type, of unknown action, without action
Events == {[type |-> "click", hash |-> "h1", category |-> "politics"],
           [type |-> "feedback", hash |-> "h1", category |-> "politics", action |-> "like"],
           [type |-> "feedback", hash |-> "h2", action |-> "dislike"],
           [type |-> "click", category |-> "politics"],
           [type |-> "share", hash |-> "h1", category |-> "politics"],
           [type |-> "feedback", hash |-> "h1", category |-> "politics", action |-> "meh"],
           [type |-> "feedback", hash |-> "h1", category |-> "politics"]}

\* SpecIngress: one request with every batch of up to MaxEvents of these
\* events, or without events, on a store where the article h1 was shown
\* or not
InitIngress ==
    /\ StoreInit
    /\ seed = [n |-> 0, target |-> 0, type |-> "like"]
    /\ budget = MaxShown
    /\ DedupIdle /\ AllocIdle /\ ScoreIdle /\ TxnIdle /\ RunIdle /\ HookIdle
    /\ pc = "request"
    /\ response = <<>>
    /\ forwarded = <<>>
    /\ \/ request = [status |-> "ok"]
       \/ \E n \in 0..MaxEvents : \E e \in [1..n -> Events] :
                request = [events |-> SeqOf(e, n)]

NextIngress ==
    \/ ReceiveFeedback
    \/ pc = "request" /\ RecordArticleShown("h1", RunInfo)

SpecIngress == InitIngress /\ [][NextIngress]_vars

-----------------------------------------------------------------------------
(* Webhook server: webhook.py, trigger and _run_pipeline *)

\* everything but the webhook server
hookFrame == <<storeVars, pc, dedupVars, allocVars, scoreVars, txnVars, apiVars, runVars>>

\* the tasks that were created and have not finished
Unfinished == {i \in 1..Len(tasks) : tasks[i] # "done"}

\* the tasks that have started and have not finished: the runs in progress
InProgress == {i \in 1..Len(tasks) : tasks[i] \in {"main", "pushing"}}

\* now - _state["last_trigger"] < RATE_LIMIT_SECONDS
NeverLimited(st, t) == FALSE
RateLimited(st, t) == t - st.last_trigger < RateLimit

\* the answer of trigger, with what was true when the request was handled
Reply(status, authorized) ==
    [status |-> status, busy |-> Unfinished # {}, authorized |-> authorized]

\* POST /trigger; the handler has no await, it runs to its end in one step of
\* the event loop
Trigger(authorized) ==
    /\ handled < MaxTriggers
    /\ handled' = handled + 1
    /\ IF ~authorized
       THEN /\ reply' = Reply(401, authorized)
            /\ UNCHANGED <<state, tasks>>
       ELSE IF state.running
       THEN /\ reply' = Reply(429, authorized)
            /\ UNCHANGED <<state, tasks>>
       ELSE IF RateLimited(state, wall)
       THEN /\ reply' = Reply(429, authorized)
            /\ UNCHANGED <<state, tasks>>
       ELSE /\ state' = [state EXCEPT !.last_trigger = wall]
            /\ tasks' = Append(tasks, "created")
            /\ reply' = Reply(200, authorized)
    /\ UNCHANGED <<wall, hookFrame>>

\* the finally clause of _run_pipeline
Finally(st) == [st EXCEPT !.running = FALSE]

\* _run_pipeline, from its start to its first await
StartPipeline(i) ==
    /\ i \in 1..Len(tasks) /\ tasks[i] = "created"
    /\ tasks' = [tasks EXCEPT ![i] = "main"]
    /\ state' = [state EXCEPT !.running = TRUE, !.last_error = "none", !.step = "Starting"]
    /\ UNCHANGED <<wall, reply, handled, hookFrame>>

\* a line of the subprocess with a step marker [N/7]
StepLine(i) ==
    /\ i \in 1..Len(tasks) /\ tasks[i] = "main"
    /\ state.step = "Starting"
    /\ state' = [state EXCEPT !.step = "Curating articles"]
    /\ UNCHANGED <<wall, tasks, reply, handled, hookFrame>>

\* the subprocess src.main has ended with this return code
ExitPipeline(i, returncode) ==
    /\ i \in 1..Len(tasks) /\ tasks[i] = "main"
    /\ IF returncode # 0
       THEN /\ state' = Finally([state EXCEPT !.last_error = "output"])
            /\ tasks' = [tasks EXCEPT ![i] = "done"]
       ELSE /\ state' = [state EXCEPT !.step = "Pushing to GitHub"]
            /\ tasks' = [tasks EXCEPT ![i] = "pushing"]
    /\ UNCHANGED <<wall, reply, handled, hookFrame>>

\* git add, commit and push have ended
PushDone(i) ==
    /\ i \in 1..Len(tasks) /\ tasks[i] = "pushing"
    /\ state' = Finally([state EXCEPT !.step = "Done"])
    /\ tasks' = [tasks EXCEPT ![i] = "done"]
    /\ UNCHANGED <<wall, reply, handled, hookFrame>>

\* an await of _run_pipeline raises
RaisePipeline(i) ==
    /\ i \in 1..Len(tasks) /\ tasks[i] \in {"main", "pushing"}
    /\ state' = Finally([state EXCEPT !.last_error = "exception"])
    /\ tasks' = [tasks EXCEPT ![i] = "done"]
    /\ UNCHANGED <<wall, reply, handled, hookFrame>>

\* 150 seconds pass; the event loop starts a task it has created before
\* RATE_LIMIT_SECONDS have passed since the trigger that created it
TickWall ==
    /\ wall < MaxWall
    /\ \A i \in 1..Len(tasks) :
            tasks[i] = "created" => wall + 1 - state.last_trigger < RateLimit
    /\ wall' = wall + 1
    /\ UNCHANGED <<state, tasks, reply, handled, hookFrame>>

\* SpecWebhook: the server, started RATE_LIMIT_SECONDS after the epoch, under
\* up to MaxTriggers requests to /trigger, with and without the token
InitWebhook ==
    /\ StoreIdle /\ DedupIdle /\ AllocIdle /\ ScoreIdle /\ TxnIdle /\ ApiIdle /\ RunIdle
    /\ pc = "idle"
    /\ state = [running |-> FALSE, last_error |-> "none", last_trigger |-> 0, step |-> "none"]
    /\ wall = RateLimit
    /\ tasks = <<>>
    /\ reply = NoReply
    /\ handled = 0

NextWebhook ==
    \/ \E authorized \in BOOLEAN : Trigger(authorized)
    \/ \E i \in 1..Len(tasks) : StartPipeline(i)
    \/ \E i \in 1..Len(tasks) : StepLine(i)
    \/ \E i \in 1..Len(tasks), returncode \in {0, 1} : ExitPipeline(i, returncode)
    \/ \E i \in 1..Len(tasks) : PushDone(i)
    \/ \E i \in 1..Len(tasks) : RaisePipeline(i)
    \/ TickWall

SpecWebhook == InitWebhook /\ [][NextWebhook]_vars

-----------------------------------------------------------------------------
(* Claims about the preference store and the engagement recorder *)

\* the weight get_learned_weights reports for category c, 1.0 when it reports none
CategoryWeight(p, c) ==
    LET w == GetLearnedWeights(p).categories
    IN  IF c \in DOMAIN w THEN w[c] ELSE NeutralWeight

\* the weight get_learned_weights reports for keyword k, 1.0 when it reports none
KeywordWeight(p, k) ==
    LET w == GetLearnedWeights(p).keywords
    IN  IF k \in DOMAIN w THEN w[k] ELSE NeutralWeight

InRange(w) == MinWeight <= w /\ w <= MaxWeight

\* the signed category boost of the last operation
LastBoost ==
    IF last.op = "click" THEN ClickBoost
    ELSE IF FeedbackValue(last.type) > 0 THEN FeedbackBoost ELSE 0 - FeedbackBoost

\* the keywords the last feedback boosts
LastKeywords == {last.keywords[i] : i \in 1..Min(Len(last.keywords), TopKeywords)}

\* C1: after any sequence of record_click, record_feedback and decay, every
\* stored weight and every category or keyword weight that get_learned_weights
\* returns lies in [0.1, 3.0].
C1_WeightBounds ==
    LET lw == GetLearnedWeights(prefs)
    IN  /\ \A i \in 1..Len(prefs) : InRange(prefs[i].weight)
        /\ \A c \in DOMAIN lw.categories : InRange(lw.categories[c])
        /\ \A k \in DOMAIN lw.keywords : InRange(lw.keywords[k])

\* a boost has just been cut off at 3.0, and the row is reported at 3.0
C1_Witness ==
    /\ last.op = "feedback"
    /\ \E i \in 1..Len(pre.prefs) :
        /\ pre.prefs[i].keyword \in LastKeywords
        /\ pre.prefs[i].category = last.category
        /\ pre.prefs[i].weight + LastBoost \div 2 > MaxWeight
        /\ prefs[i].weight = MaxWeight
        /\ KeywordWeight(prefs, prefs[i].keyword) = MaxWeight

\* C2: after any sequence of boosts on the empty store the preference table holds at most one row per
\* (category, keyword) key, category-level keys (keyword NULL) included.
C2_OneRowPerKey ==
    (seed.target = 0 /\ last.op \in {"click", "feedback"}) =>
        \A i, j \in 1..Len(prefs) :
            (prefs[i].category = prefs[j].category /\ prefs[i].keyword = prefs[j].keyword)
                => i = j

\* C3: a boost is an accumulating upsert: the weight read back for the boosted
\* category is clamp(old + delta), where old is the weight read before the
\* boost, 1.0 when the category had no row.
C3_AccumulatingUpsert ==
    (seed.target = 0 /\ last.op = "click") =>
        CategoryWeight(prefs, last.category)
            = Clamp(CategoryWeight(pre.prefs, last.category) + LastBoost)

\* C4: decay with factor < 1 raises no weight and leaves no row that was at or
\* above 0.5 below 0.5.
C4_DecayMonotone ==
    (last.op = "decay" /\ last.factor < 100) =>
        \A i \in 1..Len(prefs) :
            /\ prefs[i].weight <= pre.prefs[i].weight
            /\ pre.prefs[i].weight >= DecayFloor => prefs[i].weight >= DecayFloor

\* C5: record_article_shown with a hash that already has an engagement row adds
\* no row and leaves the table as it was (shown_at, title, clicked, feedback);
\* no hash ever has two rows.
C5_ShownIdempotent ==
    /\ \A i, j \in 1..Len(engagement) :
            engagement[i].article_hash = engagement[j].article_hash => i = j
    /\ (last.op = "shown" /\ \E i \in 1..Len(pre.engagement) :
                                pre.engagement[i].article_hash = last.hash)
            => engagement = pre.engagement

\* a clicked row, shown earlier under another description, was shown again
C5_Witness ==
    /\ last.op = "shown"
    /\ \E i \in 1..Len(pre.engagement) :
        /\ pre.engagement[i].article_hash = last.hash
        /\ pre.engagement[i].clicked = 1
        /\ pre.engagement[i].feedback # {}
        /\ pre.engagement[i].shown_at < now
        /\ pre.engagement[i].info # last.info

\* C9: feedback moves the category weight read back by get_learned_weights by
\* exactly 0.1 (clamped) and the weight of each of the first five keywords by
\* 0.05 per occurrence (clamped), in the direction of the feedback, whatever
\* rows the store holds; other keywords are untouched.
C9_FeedbackDelta ==
    (seed.target = 0 /\ last.op = "feedback") =>
        /\ CategoryWeight(prefs, last.category)
                = Clamp(CategoryWeight(pre.prefs, last.category) + LastBoost)
        /\ \A k \in Keywords \ LastKeywords :
                KeywordWeight(prefs, k) = KeywordWeight(pre.prefs, k)


-----------------------------------------------------------------------------
(* Claims about the deduplicator, the allocator and the scorer *)

RECURSIVE IsSubsequence(_, _)
IsSubsequence(a, b) ==
    IF a = <<>> THEN TRUE
    ELSE IF b = <<>> THEN FALSE
    ELSE IF Head(a) = Head(b) THEN IsSubsequence(Tail(a), Tail(b))
    ELSE IsSubsequence(a, Tail(b))

Survives(i) == \E k \in 1..Len(deduped) : deduped[k].article_hash = batch[i].article_hash

\* C6: deduplicate_articles returns a sub-sequence of its input, never longer
\* than the input, and of every pair of input articles whose similarity is at
\* least the dedup threshold at most one is among the survivors.
C6_DedupSubsequence ==
    pc \in {"relations", "scoring"} =>
        /\ IsSubsequence(deduped, batch)
        /\ Len(deduped) <= Len(batch)
        /\ \A p \in DOMAIN similarity :
                similarity[p] >= threshold => ~(Survives(p[1]) /\ Survives(p[2]))

\* three articles of equal reliability, the second similar to the first and to
\* the third, the first and the third not similar: the second alone is removed
C6_Witness ==
    /\ pc = "relations"
    /\ Len(batch) = 3
    /\ ~simFails
    /\ similarity[<<1, 2>>] >= threshold
    /\ similarity[<<2, 3>>] >= threshold
    /\ similarity[<<1, 3>>] < threshold
    /\ Len(deduped) = 2
    /\ Survives(1) /\ ~Survives(2) /\ Survives(3)

LinksOf(name) == [i \in 1..Len(sections[name]) |-> sections[name][i].link]

\* C7: after the allocation no link occurs in two different sections of the
\* returned mapping nor twice within one section, whatever the scored list
\* (articles may share a link or have an empty link) and the section specs.
C7_SectionExclusivity ==
    pc = "shown" =>
        \A a \in DOMAIN sections, b \in DOMAIN sections :
            \A i \in 1..Len(sections[a]), j \in 1..Len(sections[b]) :
                (a # b \/ i # j) => LinksOf(a)[i] # LinksOf(b)[j]

\* two scored articles share the empty link, one of them is placed, and two
\* sections are filled
C7_Witness ==
    /\ pc = "shown"
    /\ \E i \in 1..Len(scored), j \in 1..Len(scored) :
            i < j /\ scored[i].link = "" /\ scored[j].link = ""
    /\ "" \in used_links
    /\ DOMAIN sections = SectionNames
    /\ \A n \in DOMAIN sections : sections[n] # <<>>

\* C8: two calls of calculate_base_score with the same article, config and
\* learned weights return the same value whenever they are made.
C8_ScoreDeterministic ==
    \A i \in 1..Len(scores), j \in 1..Len(scores) : scores[i].score = scores[j].score

RecordsOf(p) ==
    {k \in 1..Len(relations) :
        /\ relations[k].article_hash = batch[p[1]].article_hash
        /\ relations[k].related_hash = batch[p[2]].article_hash}

\* C10 as stated: every pair at or above the dedup threshold has a same_story
\* record, every pair at or above the relation threshold and below the dedup
\* threshold has a related_topic record, and no pair below the relation
\* threshold has a record.
C10_AsStated ==
    pc = "scoring" =>
        \A p \in DOMAIN similarity :
            /\ similarity[p] >= threshold =>
                    \E k \in RecordsOf(p) : relations[k].relation_type = "same_story"
            /\ (similarity[p] >= RelationThreshold /\ similarity[p] < threshold) =>
                    \E k \in RecordsOf(p) : relations[k].relation_type = "related_topic"
            /\ similarity[p] < RelationThreshold => RecordsOf(p) = {}

\* C10: a pair of batch articles has a relation record exactly when its
\* similarity was computed and is at least the relation threshold; the record is
\* tagged same_story when the similarity is also at least the configured dedup
\* threshold and related_topic otherwise.
C10_RelationRecords ==
    pc = "scoring" =>
        \A p \in PairsOf(Len(batch)) :
            IF p \in DOMAIN similarity /\ similarity[p] >= RelationThreshold
            THEN /\ RecordsOf(p) # {}
                 /\ \A k \in RecordsOf(p) :
                        /\ relations[k].similarity_score = similarity[p]
                        /\ relations[k].relation_type =
                              (IF similarity[p] >= threshold THEN "same_story"
                                                             ELSE "related_topic")
            ELSE RecordsOf(p) = {}

\* the dedup threshold is configured below the relation threshold: one pair is
\* deduplicated without a record, another is recorded as same_story
C10_Witness ==
    /\ pc = "scoring"
    /\ threshold < RelationThreshold
    /\ Len(deduped) < Len(batch)
    /\ \E p \in DOMAIN similarity :
            similarity[p] >= threshold /\ similarity[p] < RelationThreshold /\ RecordsOf(p) = {}
    /\ \E k \in 1..Len(relations) : relations[k].relation_type = "same_story"


\* the scoring scenario of the spec: static category weight 1.2, learned
\* category weight 1.5, reliability 0.95, a high-priority keyword and no other
\* keyword tier, learned keyword or clickbait pattern
Scenario ==
    /\ pc = "score"
    /\ article.category \in DOMAIN Config.user_interests.categories
    /\ Config.user_interests.categories[article.category] = 12000
    /\ article.category \in DOMAIN learned.categories
    /\ learned.categories[article.category] = 15000
    /\ article.reliability = 9500
    /\ AnyIn(Config.user_interests.keywords.high_priority, article.text)
    /\ ~AnyIn(Config.user_interests.keywords.medium_priority, article.text)
    /\ ~AnyIn(Config.user_interests.keywords.low_priority, article.text)
    /\ \A k \in DOMAIN learned.keywords : k \notin article.text
    /\ ~article.clickbait

\* the scores of the scenario's article computed 2 hours after publication
TwoHourScores == {scores[i].score : i \in {j \in 1..Len(scores) : scores[j].at = article.published + 2}}

\* C11 as stated: every article of the scenario, scored 2 hours after
\* publication, gets 1.6875 whatever its other attributes.
C11_AsStated ==
    Scenario => \A v \in TwoHourScores : v = 16875

\* C11: an article of the scenario, scored 2 hours after publication, gets
\* 1.6875 when it has no full text and an empty or exempt link, 1.5875 when it
\* has no full text and another link, and with full text 1.6875 plus 0.1 for
\* more than 500 characters, 0.05 for a quote and 0.05 for a figure with a unit.
C11_ScenarioScore ==
    Scenario =>
        \A v \in TwoHourScores :
            IF article.full_text.len = 0
            THEN IF article.link = "" \/ article.link \in ExemptLinks
                 THEN v = 16875
                 ELSE v = 15875
            ELSE v = 16875 + (IF article.full_text.len > 500 THEN 1000 ELSE 0)
                           + (IF article.full_text.quote THEN 500 ELSE 0)
                           + (IF article.full_text.figures THEN 500 ELSE 0)

\* an article of the scenario without full text and with an ordinary link has
\* been scored 2 hours after publication, at 1.5875
C11_Witness ==
    /\ Scenario
    /\ article.full_text.len = 0
    /\ article.link = "https://example.com/a"
    /\ TwoHourScores = {15875}


\* C12: after record_click(hash, category) the engagement row of the hash is
\* marked clicked with a click time, exactly one click-history entry for the
\* hash has been appended, and the category weight read back has risen by 0.05
\* (clamped) through a row of provenance click.
C12_ClickEffects ==
    last.op = "click" =>
        /\ \E i \in 1..Len(engagement) :
                /\ engagement[i].article_hash = last.hash
                /\ engagement[i].clicked = 1
                /\ engagement[i].click_time # {}
        /\ Len(click_history) = Len(pre.click_history) + 1
        /\ SubSeq(click_history, 1, Len(pre.click_history)) = pre.click_history
        /\ click_history[Len(click_history)].article_hash = last.hash
        /\ CategoryWeight(prefs, last.category)
                = Clamp(CategoryWeight(pre.prefs, last.category) + ClickBoost)
        /\ \E i \in 1..Len(prefs) :
                /\ prefs[i].category = last.category
                /\ prefs[i].keyword = NULL
                /\ prefs[i].source = "click"


-----------------------------------------------------------------------------
(* Claims about transactions *)

\* the tables after the committed operations ord ran one after the other on tb,
\* each with the statements and times it ran with
RECURSIVE SerialTables(_, _)
SerialTables(tb, ord) ==
    IF ord = <<>> THEN tb
    ELSE SerialTables(RunStatements(tb, procs[Head(ord)].call, procs[Head(ord)].done), Tail(ord))

Origin == IF \A p \in Procs : procs[p].status = "idle" THEN Tables ELSE started

\* C13: the file holds exactly the effects of the operations that committed,
\* whole and in commit order: an operation that failed at any statement, or
\* that is still running, has persisted nothing; and every result of a
\* concurrent get_learned_weights is that of the store between two operations.
C13_AllOrNothing ==
    /\ Tables = SerialTables(Origin, order)
    /\ \A w \in seen : \E k \in 0..Len(order) :
            w = GetLearnedWeights(SerialTables(Origin, SubSeq(order, 1, k)).prefs)

\* a feedback failed after its category boost and a keyword boost had run,
\* another operation committed, and the weights were read at two different
\* moments
C13_Witness ==
    /\ \E p \in Procs, q \in Procs :
        /\ procs[p].status = "failed"
        /\ procs[p].call.op = "feedback"
        /\ Len(procs[p].done) >= 4
        /\ procs[q].status = "committed"
    /\ Cardinality(seen) >= 2

\* the boost the call gives to the key (category of the call, kw), 0 when none
BoostOf(call, kw) ==
    LET st == Statements(call)
        hit == {k \in 1..Len(st) : st[k].kind = "boost" /\ st[k].keyword = kw}
    IN  IF hit = {} THEN 0 ELSE st[CHOOSE k \in hit : TRUE].boost

\* the time process p ran its boost of the key kw
BoostTime(p, kw) ==
    LET d == procs[p].done
    IN  d[CHOOSE k \in 1..Len(d) : d[k][1].kind = "boost" /\ d[k][1].keyword = kw][2]

\* C14: when two operations in different processes have boosted the same
\* (category, keyword) key that had a row, every row of the key holds the two
\* clamped boosts applied one after the other in commit order, with the
\* provenance and the timestamp of the later boost.
C14_NoLostUpdate ==
    Len(order) = 2 =>
        LET first == procs[order[1]]
            later == procs[order[2]]
        IN  \A kw \in {NULL} \cup Keywords :
                LET old == {i \in 1..Len(started.prefs) :
                                /\ started.prefs[i].category = "politics"
                                /\ started.prefs[i].keyword = kw}
                    rows == {i \in 1..Len(prefs) :
                                prefs[i].category = "politics" /\ prefs[i].keyword = kw}
                IN  (old # {} /\ BoostOf(first.call, kw) # 0 /\ BoostOf(later.call, kw) # 0) =>
                        \A i \in rows :
                            /\ prefs[i].weight =
                                    Clamp(Clamp(Avg(started.prefs, old) + BoostOf(first.call, kw))
                                          + BoostOf(later.call, kw))
                            /\ prefs[i].source = later.call.op
                            /\ prefs[i].updated_at = BoostTime(order[2], kw)


-----------------------------------------------------------------------------
(* Claims about the curation run *)

\* hash and score of each element of a scored list
HashScores(list) ==
    SeqOf([i \in 1..Len(list) |-> [article_hash |-> list[i].article_hash,
                                   score |-> list[i].score]], Len(list))

\* hash and base score of each element of the list of the first sort
HashBases ==
    SeqOf([i \in 1..Len(ranked) |-> [article_hash |-> ranked[i].article_hash,
                                     score |-> ranked[i].base]], Len(ranked))

\* the scored list the run would compute from the learned weights lw
ScoresFrom(lw) ==
    HashScores(SortByScore(ScoreLoop(deduped, 1, curation_config.doc, lw, clock)))

\* C15: every score of a curation run is computed from the one snapshot of the
\* learned weights that the run read at its start, before its own decay pass:
\* once the run has scored its batch, the base scores are those that the
\* weights of the store at the time of the snapshot give, whatever the decay
\* pass, record_click and record_feedback have committed since.
C15_SnapshotScores ==
    /\ pc \in {"dedup", "relations", "scoring", "boost", "sections", "shown", "returned"}
            => learned = GetLearnedWeights(run_start.prefs)
    /\ pc = "boost"
            => HashScores(scored) = ScoresFrom(GetLearnedWeights(run_start.prefs))
    /\ pc \in {"sections", "shown", "returned"}
            => HashBases = ScoresFrom(GetLearnedWeights(run_start.prefs))

\* the run has scored an article after its decay pass decayed a row and after
\* a later record_feedback committed, and the weights of the store would now
\* give another score
C15_Witness ==
    /\ pc = "boost"
    /\ scored # <<>>
    /\ last.op = "feedback"
    /\ \E i \in 1..Len(prefs) : prefs[i].source = "decay"
    /\ ScoresFrom(GetLearnedWeights(prefs)) # HashScores(scored)


\* the final score of the article of this hash: base score plus weighted bonus
FinalScore(hash) ==
    LET i == CHOOSE j \in 1..Len(ranked) : ranked[j].article_hash = hash
    IN  ranked[i].base + (ranked[i].bonus
            * Get(Part(curation_config.doc, "scoring"), "cross_reference_bonus",
                  DefaultCrossRefWeight)) \div Scale

PlacedHashes ==
    UNION {{sections[n][i].article_hash : i \in 1..Len(sections[n])} : n \in DOMAIN sections}

\* the rows of the engagement table for this hash
RowsOf(e, hash) == {i \in 1..Len(e) : e[i].article_hash = hash}

\* the row describes the article as this run describes it
FromRun(row) ==
    \E i \in 1..Len(batch) :
        /\ row.article_hash = batch[i].article_hash
        /\ row.info = [title |-> batch[i].title, source |-> batch[i].source,
                       category |-> batch[i].category, url |-> batch[i].link]

\* C17: when a curation run has returned, the engagement table holds exactly
\* one row for the hash of every article placed in a returned section; every
\* row that describes an article as the run does is the row of a placed
\* article; and a hash that had a row when the run began still has that row,
\* with its description and time of showing, and with its click and feedback.
C17_ShownExactlyPlaced ==
    pc = "returned" =>
        /\ \A h \in PlacedHashes : Cardinality(RowsOf(engagement, h)) = 1
        /\ \A i \in 1..Len(engagement) :
                FromRun(engagement[i]) => engagement[i].article_hash \in PlacedHashes
        /\ \A i \in 1..Len(run_start.engagement) :
                LET old == run_start.engagement[i]
                IN  \E j \in 1..Len(engagement) :
                        /\ engagement[j].article_hash = old.article_hash
                        /\ engagement[j].info = old.info
                        /\ engagement[j].shown_at = old.shown_at
                        /\ old.clicked = 1 => engagement[j].clicked = 1
                        /\ old.feedback # {} => engagement[j].feedback # {}

\* a run of two articles has returned one of them, whose hash had been shown
\* and clicked before the run, and has left the other out
C17_Witness ==
    /\ pc = "returned"
    /\ Len(batch) = 2
    /\ PlacedHashes = {"a1"}
    /\ \E i \in 1..Len(run_start.engagement) :
            /\ run_start.engagement[i].article_hash = "a1"
            /\ run_start.engagement[i].clicked = 1


\* the config file is missing or malformed, or its document has no section
\* specs or a section spec without count
BadConfig ==
    \/ curation_config.state # "loaded"
    \/ /\ curation_config.state = "loaded"
       /\ LET brief == Part(curation_config.doc, "daily_brief")
          IN  \/ "sections" \notin DOMAIN brief
              \/ \E i \in 1..Len(Get(brief, "sections", <<>>)) :
                    "count" \notin DOMAIN brief.sections[i]

\* C19: a curation run whose config is missing or malformed, or has no section
\* specs, or has a section spec without count, never gets as far as allocating
\* or returning sections: no default is substituted.
C19_FatalConfig ==
    BadConfig => pc \notin {"shown", "returned"}


\* C20: when the similarity computation of the deduplicator fails, or the batch
\* has fewer than two articles, the run goes on with exactly its batch and
\* with no relation; when that of the cross-reference bonus fails, or fewer
\* than two articles were scored, every bonus is 0 and the scored list keeps
\* the scores and the order of the first sort; the run does not end in error.
C20_SimilarityFallback ==
    /\ pc # "fatal"
    /\ (pc \notin {"config", "weights", "decay", "dedup"} /\ (simFails \/ Len(batch) < 2))
            => deduped = batch /\ related_pairs = <<>> /\ relations = <<>>
    /\ (pc \in {"sections", "shown", "returned"} /\ (xsimFails \/ Len(ranked) < 2))
            => /\ \A i \in 1..Len(ranked) : ranked[i].bonus = 0
               /\ HashScores(scored) = HashBases

\* a run on three articles, all of them scored, in which both vectorizers failed
C20_Witness ==
    /\ pc = "returned"
    /\ simFails /\ xsimFails
    /\ Len(batch) = 3
    /\ Len(ranked) = 3


-----------------------------------------------------------------------------
(* Claims about the feedback ingress *)

\* the event has a hash and is a click, or a feedback whose action is like or dislike
WellFormed(event) ==
    /\ "hash" \in DOMAIN event
    /\ event.hash # ""
    /\ "type" \in DOMAIN event
    /\ \/ event.type = "click"
       \/ /\ event.type = "feedback"
          /\ "action" \in DOMAIN event
          /\ event.action \in {"like", "dislike"}

\* the recorder operation a well-formed event stands for
CallOf(event) ==
    [op |-> event.type, hash |-> event.hash,
     type |-> IF event.type = "click" THEN "" ELSE event.action,
     category |-> IF "category" \in DOMAIN event THEN event.category ELSE "",
     keywords |-> <<>>]

\* the tables after the calls ran one after the other on tb, each committed
RECURSIVE AfterCalls(_, _, _)
AfterCalls(tb, calls, t) ==
    IF calls = <<>> THEN tb ELSE AfterCalls(RunCall(tb, Head(calls), t), Tail(calls), t)

-----------------------------------------------------------------------------
(* Claims about the allocation, again *)

\* the spec at position k is the last one of its name, so that its list is
\* the one the returned mapping holds
Returned(k) ==
    \A j \in (k + 1)..Len(section_specs) : section_specs[j].name # section_specs[k].name

\* the article passes the filter of the spec: any category when there is none
Matches(c, spec) == spec.category = NULL \/ c.category = spec.category

\* the list the greedy rule gives section k: the first count articles of the
\* scored list whose link no section before k has claimed and that pass the filter
RECURSIVE GreedySection(_)
GreedySection(k) ==
    LET spec == section_specs[k]
        claimed == UNION {{GreedySection(j)[i].link : i \in 1..Len(GreedySection(j))} :
                          j \in 1..(k - 1)}
        eligible == Select(scored, {i \in 1..Len(scored) :
                                        /\ scored[i].link \notin claimed
                                        /\ Matches(scored[i], spec)})
    IN  SubSeq(eligible, 1, Min(spec.count, Len(eligible)))

\* C21: after the allocation, the list of every section is, in order, the first
\* count articles of the score-sorted list whose link is not claimed by the
\* sections declared before it and whose category passes its filter.
C21_GreedyAllocation ==
    pc = "shown" =>
        \A k \in 1..Len(section_specs) :
            Returned(k) => sections[section_specs[k].name] = GreedySection(k)

\* C22: after the allocation, every returned section holds at most its target
\* count of articles, a section of target count 0 none.
C22_CapacityBound ==
    pc = "shown" =>
        \A k \in 1..Len(section_specs) :
            Returned(k) => Len(sections[section_specs[k].name]) <= section_specs[k].count


-----------------------------------------------------------------------------
(* Claims about the deduplicator, again *)

\* the pairs of an n-article batch in the order in which the loops visit them
RECURSIVE PairsFrom(_, _, _)
PairsFrom(n, i, j) ==
    IF i > n THEN <<>>
    ELSE IF j > n THEN PairsFrom(n, i + 1, i + 2)
    ELSE <<<<i, j>>>> \o PairsFrom(n, i, j + 1)

Visits == PairsFrom(Len(batch), 1, 2)

\* the keep flags when the loops reach their first, second, ... pair, and
\* after the last one
RECURSIVE KeepTrace(_, _)
KeepTrace(v, acc) ==
    IF Len(acc) > Len(v) THEN acc
    ELSE KeepTrace(v, Append(acc,
            DedupPair(batch, similarity, threshold, RelationThreshold,
                      v[Len(acc)][1], v[Len(acc)][2],
                      [keep |-> acc[Len(acc)], related |-> <<>>]).keep))

KeepBefore(v) == KeepTrace(v, <<[i \in 1..Len(batch) |-> TRUE]>>)

\* the eliminations <<m, x, y>>: the m-th pair is the one of x and y, both are
\* kept when the loops reach it, they are at least threshold-similar, and x is
\* the one the pair keeps
Eliminations ==
    LET v == Visits
        kb == KeepBefore(v)
        decided == {m \in 1..Len(v) : /\ kb[m][v[m][1]] /\ kb[m][v[m][2]]
                                      /\ similarity[v[m]] >= threshold}
    IN  {IF batch[v[m][1]].reliability >= batch[v[m][2]].reliability
         THEN <<m, v[m][1], v[m][2]>>
         ELSE <<m, v[m][2], v[m][1]>> : m \in decided}

Eliminates(x, y) == \E t \in Eliminations : t[2] = x /\ t[3] = y

Deduplicated == pc \in {"relations", "scoring"} /\ ~simFails /\ Len(batch) >= 2

\* C23, as stated: if A eliminates B, and B is at least threshold-similar to a
\* later and less reliable article C, then C is eliminated as well.
C23_AsStated ==
    Deduplicated =>
        LET E == Eliminations
        IN  \A t \in E : \A c \in 1..Len(batch) :
                (/\ t[2] # c /\ t[3] < c
                 /\ similarity[<<t[3], c>>] >= threshold
                 /\ batch[c].reliability < batch[t[3]].reliability)
                    => ~Survives(c)

\* C23: elimination is decided pair by pair in index order, and only between
\* two articles that are both still kept when their pair is reached: the
\* articles removed are exactly those that lose such a pair, an article that
\* has lost one takes part in no elimination afterwards, and on equal
\* reliability the earlier-indexed article of the pair is the one kept.
C23_PairwiseElimination ==
    Deduplicated =>
        LET E == Eliminations
        IN  /\ \A y \in 1..Len(batch) : Survives(y) <=> ~(\E t \in E : t[3] = y)
            /\ \A t \in E, u \in E : t[1] < u[1] => t[3] \notin {u[2], u[3]}
            /\ \A t \in E :
                    batch[t[2]].reliability = batch[t[3]].reliability => t[2] < t[3]

\* the first article eliminates the second, the second is similar to the third
\* and more reliable than it, the first and the third are not similar, and
\* the third survives
C23_Witness ==
    /\ Deduplicated
    /\ Len(batch) = 3
    /\ Eliminates(1, 2)
    /\ similarity[<<2, 3>>] >= threshold
    /\ batch[3].reliability < batch[2].reliability
    /\ similarity[<<1, 3>>] < threshold
    /\ Survives(3)

\* the article is at least threshold-similar to x
Similar(x, y) == x # y /\ similarity[<<Min(x, y), Max(x, y)>>] >= threshold

\* C29: an article is removed only by an article that is at least
\* threshold-similar to it, at least as reliable, and still kept at that
\* moment; so an article strictly more reliable than every article similar to
\* it survives, wherever it stands in the batch.
C29_EliminatedByBetter ==
    Deduplicated =>
        LET v == Visits
            kb == KeepBefore(v)
        IN  /\ \A y \in 1..Len(batch) :
                    ~Survives(y) =>
                        \E x \in 1..Len(batch), m \in 1..Len(v) :
                            /\ Similar(x, y)
                            /\ batch[x].reliability >= batch[y].reliability
                            /\ {v[m][1], v[m][2]} = {x, y}
                            /\ kb[m][x]
            /\ \A y \in 1..Len(batch) :
                    (\A x \in 1..Len(batch) :
                        Similar(x, y) => batch[y].reliability > batch[x].reliability)
                        => Survives(y)

\* the most reliable article stands last, after two articles similar to it,
\* and is the only survivor
C29_Witness ==
    /\ Deduplicated
    /\ Len(batch) = 3
    /\ Similar(1, 3) /\ Similar(2, 3)
    /\ batch[3].reliability > batch[1].reliability
    /\ batch[3].reliability > batch[2].reliability
    /\ Survives(3) /\ ~Survives(1) /\ ~Survives(2)

-----------------------------------------------------------------------------
(* Claims about the final score *)

-----------------------------------------------------------------------------
(* Claims about the decay pass, again *)

\* the step is a call of decay_old_preferences with the days and the factor of
\* the call before it, which was the last operation on the store
SecondDecay ==
    /\ last.op = "decay" /\ last'.op = "decay"
    /\ steps' = steps + 1 /\ now' = now
    /\ last'.days = last.days /\ last'.factor = last.factor
    /\ last.days >= 1

\* row i was stale before the first of the two calls, which decayed it
DecayedByFirst(i) ==
    /\ i \in 1..Len(pre.prefs)
    /\ pre.prefs[i] # prefs[i]

\* C25, as stated: decay(days, factor) run twice in succession over a row that
\* was stale before the first call multiplies the weight of the row by factor
\* twice, subject to the floor of 0.5.
C25_AsStated ==
    [][SecondDecay =>
        \A i \in 1..Len(prefs) :
            DecayedByFirst(i) =>
                prefs'[i].weight = DecayedWeight(prefs[i].weight, last.factor)]_vars

\* C25, amended: the first call refreshes the updated_at of every row it
\* decays, so a second decay(days, factor) with days >= 1 decays such a row
\* again exactly when more than days days have passed since the first call;
\* run in succession it leaves the row as the first call left it.
C25_RefreshedByDecay ==
    [][SecondDecay =>
        \A i \in 1..Len(prefs) :
            DecayedByFirst(i) =>
                /\ prefs[i].updated_at > pre.prefs[i].updated_at + last.days
                /\ IF now - prefs[i].updated_at > last.days
                   THEN prefs'[i].weight = DecayedWeight(prefs[i].weight, last.factor)
                   ELSE prefs'[i] = prefs[i]]_vars

\* decay ran on a store in which an earlier decay had halved a stale row above
\* the floor, and left that row alone
C25_Witness ==
    /\ last.op = "decay" /\ last.days >= 1 /\ last.factor = 50
    /\ \E i \in 1..Len(pre.prefs) :
        /\ pre.prefs[i].source = "decay"
        /\ pre.prefs[i].weight > DecayFloor
        /\ prefs[i] = pre.prefs[i]

-----------------------------------------------------------------------------
(* Claims about the engagement record, again *)

\* the rows of the engagement table e for this hash
RowsFor(e, hash) == {i \in 1..Len(e) : e[i].article_hash = hash}

\* C26: an engagement record is updated for click at most once: after the
\* first record_click for a hash, a further record_click for the same hash
\* leaves the clicked flag and the click timestamp of the record unchanged.
C26_ClickedOnce ==
    last.op = "click" =>
        \A i \in RowsFor(pre.engagement, last.hash) :
            pre.engagement[i].clicked = 1 =>
                /\ engagement[i].clicked = pre.engagement[i].clicked
                /\ engagement[i].click_time = pre.engagement[i].click_time

\* C27: latest feedback wins: after record_feedback for a hash that has an
\* engagement row, the feedback value of the row is the signed value of that
\* call (+1 for like and more_like_this, -1 for any other type); the call
\* changes neither the clicked flag nor the shown timestamp of any row; and the
\* feedback value of every row, when set, is one of -1, 0, +1.
C27_LatestFeedbackWins ==
    /\ \A i \in 1..Len(engagement) : engagement[i].feedback \subseteq {0 - 1, 0, 1}
    /\ last.op = "feedback" =>
        /\ Len(engagement) = Len(pre.engagement)
        /\ \A i \in 1..Len(engagement) :
            /\ engagement[i].clicked = pre.engagement[i].clicked
            /\ engagement[i].click_time = pre.engagement[i].click_time
            /\ engagement[i].shown_at = pre.engagement[i].shown_at
            /\ engagement[i].feedback =
                    (IF engagement[i].article_hash = last.hash
                     THEN {FeedbackValue(last.type)}
                     ELSE pre.engagement[i].feedback)

\* feedback was recorded, after a day, for a clicked article that had the
\* opposite feedback
C27_Witness ==
    /\ last.op = "feedback"
    /\ \E i \in RowsFor(pre.engagement, last.hash) :
        /\ pre.engagement[i].feedback = {0 - FeedbackValue(last.type)}
        /\ pre.engagement[i].clicked = 1
        /\ pre.engagement[i].feedback_time # {now}

-----------------------------------------------------------------------------
(* Claims about the webhook server *)

\* C28: under every interleaving of /trigger requests and completions at most
\* one pipeline run is in progress; a request with the token that arrives while
\* a run is in progress, or between an accepted trigger and the start of its
\* task, is answered 429 and starts no second run; and after every run
\* (success, non-zero exit, exception) running is False again.
C28_SingleRun ==
    /\ Cardinality(Unfinished) <= 1
    /\ state.running <=> InProgress # {}
    /\ (reply.authorized /\ reply.busy) => reply.status = 429

\* after a first run that failed, a second trigger was accepted, and a third
\* one, arriving before the task of the second had started, was answered 429
C28_Witness ==
    /\ Len(tasks) = 2 /\ tasks[1] = "done" /\ tasks[2] = "created"
    /\ state.last_error # "none"
    /\ ~state.running
    /\ reply = [status |-> 429, busy |-> TRUE, authorized |-> TRUE]

-----------------------------------------------------------------------------
(* Claims about the cross-reference bonus *)

\* the deduplicator and the cross-reference bonus judge the titles by the same
\* pairwise similarity: both vectorizers fail, or neither and they agree
SameRelation ==
    /\ xsimFails = simFails
    /\ ~simFails => xsim = similarity

\* C30: where the deduplicator and the cross-reference bonus judge similarity
\* by the same pairwise relation and the dedup threshold is at most the
\* corroboration threshold of 0.7, the bonus of every article that reaches
\* scoring is 0: the boost step changes no score and no position.
C30_NoBonusAfterDedup ==
    (/\ pc \in {"sections", "shown", "returned"}
     /\ SameRelation
     /\ threshold <= CrossRefThreshold) =>
        /\ Len(scored) = Len(ranked)
        /\ \A i \in 1..Len(ranked) :
            /\ ranked[i].bonus = 0
            /\ scored[i].article_hash = ranked[i].article_hash
            /\ scored[i].score = ranked[i].base

\* a run on three articles under one similarity relation in which two titles
\* were 0.8 similar, one of the two was eliminated and two articles were scored
C30_Witness ==
    /\ pc = "returned"
    /\ SameRelation /\ ~simFails
    /\ threshold <= CrossRefThreshold
    /\ Len(batch) = 3
    /\ \E p \in DOMAIN similarity : similarity[p] >= CrossRefThreshold
    /\ Len(deduped) = 2
    /\ Len(ranked) = 2

====
